---- MODULE Spec2Model ----
(***************************************************************************)
(* Model of the browser-side emotion pipelines of amauryca/facememory.     *)
(*                                                                         *)
(* camera.js  : start/stop handlers, the animation-frame detection loop    *)
(*              (detectFaces), the stability filter (getStableEmotion),    *)
(*              the sustained-absence counter and saveEmotion.             *)
(* text-chat.js: startVoiceAnalysis / stopVoiceAnalysis and the 2 s voice  *)
(*              interval.                                                  *)
(*                                                                         *)
(* JavaScript runs each callback to its next await atomically, so every    *)
(* action below is one such run: a click handler up to its first await, a  *)
(* continuation after an await, a timer or animation-frame callback.       *)
(* Time is the value Date.now() returns; it advances only in Tick.         *)
(*                                                                         *)
(* The voice buttons are clicked by camera.js, never by the user.  Their   *)
(* disabled flags follow isRecording (text-chat.js:656-657, 710-711), and  *)
(* both handlers test isRecording first, so the flags are not modelled.    *)
(***************************************************************************)
EXTENDS Integers, Sequences, FiniteSets, TLC

----------------------------------------------------------------------------
(* Program constants *)

detectionInterval == 500

emotionSaveInterval == 2000

HistoryCapacity == 5

NoFaceThreshold == 5

NoFace == "No face detected"

Waiting == "Waiting for detection..."

(* Labels mapEmotion can return (a subset of the seven is enough to vote). *)
Labels == {"Happy", "Sad", "Neutral"}

----------------------------------------------------------------------------
(* Bounds of the model *)

(* Date.now() at page load; far larger than both intervals in reality. *)
Epoch == emotionSaveInterval + detectionInterval

(* Granularity of the clock. *)
TimeStep == detectionInterval

(* SpecFace: the clock stops MaxElapsed ms after page load. *)
MaxElapsed == 3500

(* Spec: the clock stops MaxSessionElapsed ms after page load. *)
MaxSessionElapsed == 500

(* SpecLoops: the clock stops MaxLoopElapsed ms after page load. *)
MaxLoopElapsed == 1000

(* Spec: start handlers, detection loops and microphone requests alive at once. *)
MaxPending == 2

(* SpecFace: start handlers and detection loops alive at once. *)
MaxFacePending == 1

(* Voice-analysis requests awaiting the backend at once. *)
MaxVoiceInFlight == 1

(* Voice chat requests between their fetch and their display at once. *)
MaxChatInFlight == 1

(* Restart timers of the recognizer's onend handler pending at once. *)
MaxRestartTimers == 2

(* SpecAdvice: timers of generateTherapistResponse pending at once. *)
MaxThinking == 1

(* SpecAdvice: user messages inserted into the page. *)
MaxUserMessages == 2

(* SpecChat: messages the user sends on the text chat page. *)
MaxTextMessages == 2

(* SpecTimeline: loadEmotionData calls alive at once. *)
MaxTimelineLoads == 2

----------------------------------------------------------------------------
VARIABLES
    now,                   \* Date.now()
    isStreaming,           \* camera.js:18
    startDisabled,         \* startButton.disabled
    stopDisabled,          \* stopButton.disabled
    statusText,            \* statusText.textContent (camera.js), by kind of message
    camPending,            \* start handlers awaiting getUserMedia (camera.js:745)
    vidPending,            \* start handlers awaiting the video-ready promise (camera.js:760)
    rafPending,            \* requestAnimationFrame(detectFaces) callbacks not yet run
    inFlight,              \* detectFaces executions awaiting the recognizer (camera.js:591)
    lastDetectionTime,     \* camera.js:505
    emotionHistory,        \* camera.js:507
    currentEmotion,        \* camera.js:508
    noFaceDetectionCount,  \* camera.js:509
    lastEmotionSaveTime,   \* camera.js:132
    emotionDisplay,        \* emotionDisplay.textContent
    sessionId,             \* camera.js:25
    windowGetSessionId,    \* window.getSessionId is defined (camera.js:28)
    faceMoodValue,         \* faceMoodValue.textContent
    voiceMoodValue,        \* voiceMoodValue.textContent
    overallMoodValue,      \* overallMoodValue.textContent
    saveInFlight,          \* POST /api/emotions requests awaiting the backend (camera.js:144)
    historyInFlight,       \* GET /api/emotions requests awaiting the backend (camera.js:171)
    moodInFlight,          \* GET /api/combined-mood requests awaiting the backend (camera.js:458)
    emotionHistoryTable,   \* TRUE once updateEmotionHistoryDisplay has listed records
    micPending,            \* startVoiceAnalysis calls awaiting getUserMedia (text-chat.js:634)
    isRecording,           \* text-chat.js:412
    audioAnalysisInterval, \* text-chat.js:413, TRUE while a setInterval handle is live
    voiceInFlight,         \* POST /api/voice-analysis requests awaiting the backend
    dataArray,             \* the snapshot analyzeVoice took last (text-chat.js:743)
    audioFeatures,         \* what calculateAudioFeatures returned for it (text-chat.js:747)
    isListening,           \* text-chat.js:417
    recognition,           \* the browser's SpeechRecognition session: "off", "on", "done"
    restartTimers,         \* setTimeout(startListening, 1000) timers not yet run
    chatInFlight,          \* bodies of voice POST /api/chat requests awaiting the backend
    chatDelayed,           \* processSpeech calls in their 800 ms delay (text-chat.js:582)
    therapyAdviceText,     \* therapyAdviceText.textContent
    therapyAdviceContainer,\* TRUE while therapyAdviceContainer is shown
    \* history variables, written but never read by the program's actions
    observed,              \* labels fed to getStableEmotion since the last clear
    missRun,               \* consecutive detection ticks that found no face
    runStartEmotion,       \* currentEmotion when the current run of misses began
    prevExecTime,          \* gate-pass time of the execution before the latest one
    posts,                 \* POST /api/emotions calls issued: <<[t, emotion]>>
    quiet,                 \* the stop handler has run and start was not clicked since
    sent,                  \* [pipeline, session_id] of every backend request issued
    fetchFailed,           \* a save or history request of the face pipeline has failed
    unfedRun,              \* consecutive detection ticks that fed no label to the filter
    moodRequests,          \* the requests in flight that answer with an overall mood, oldest first
    overallSource,         \* the answer that wrote overallMoodValue last
    \* media streams, by whether some track of theirs is live
    stream,                \* camera.js:20: "null", or "live" while it refers to a live stream
    strayVideo,            \* TRUE while a camera stream no variable refers to is live
    recorderStream,        \* mediaRecorder.stream (text-chat.js:641): "none", "live", "ended"
    strayAudio,            \* TRUE while a microphone stream of a replaced recorder is live
    \* the therapeutic advice module, part_001
    currentEmotionalState, \* part_001:18-23, without its confidence
    adviceHeader,          \* therapyAdviceHeader.textContent
    therapistMessage,      \* TRUE while the page holds a .therapist-message element
    therapistParagraph,    \* text of the paragraph of the newest therapist message
    typewriter,            \* text, position and timer of the newest typeWriterEffect
    adviceThinking,        \* userText of the pending timers of generateTherapistResponse
    userMessages,          \* texts of the user messages inserted into the page
    \* the timeline page, part_000
    loadingIndicator,      \* TRUE while the element is shown (no d-none class)
    errorMessage,          \* TRUE while the element is shown
    noDataMessage,         \* TRUE while the element is shown
    emotionVisualizations, \* TRUE while the element is shown
    errorText,             \* errorText.textContent, by kind of message
    currentTimePeriod,     \* part_000:31
    timelineChart,         \* TRUE while the chart objects exist (part_000:23-25)
    timelineFetching,      \* hours of the loadEmotionData calls awaiting fetch
    timelineParsing,       \* hours of those awaiting response.json()
    \* the text chat page, text-chat.js:1-383
    chatContainer,         \* the children of chatContainer, first to last
    typingIndicator,       \* TRUE while the element is shown
    aiCalls                \* the generateAIResponse calls made, by position in their code

vars == <<now, isStreaming, startDisabled, stopDisabled, statusText, camPending,
          vidPending, rafPending, inFlight, lastDetectionTime, emotionHistory,
          currentEmotion, noFaceDetectionCount, lastEmotionSaveTime, emotionDisplay,
          sessionId, windowGetSessionId, faceMoodValue, voiceMoodValue,
          overallMoodValue, saveInFlight, historyInFlight, moodInFlight,
          emotionHistoryTable,
          micPending, isRecording, audioAnalysisInterval, voiceInFlight,
          dataArray, audioFeatures, isListening, recognition, restartTimers,
          chatInFlight, chatDelayed, therapyAdviceText, therapyAdviceContainer,
          observed, missRun, runStartEmotion, prevExecTime, posts, quiet, sent,
          fetchFailed, unfedRun, moodRequests, overallSource, stream, strayVideo,
          recorderStream, strayAudio, currentEmotionalState, adviceHeader, therapistMessage,
          therapistParagraph, typewriter, adviceThinking, userMessages,
          loadingIndicator, errorMessage, noDataMessage, emotionVisualizations,
          errorText, currentTimePeriod, timelineChart, timelineFetching,
          timelineParsing, chatContainer, typingIndicator, aiCalls>>

faceVars == <<emotionHistory, currentEmotion, noFaceDetectionCount,
              lastEmotionSaveTime, emotionDisplay, observed, missRun,
              runStartEmotion, posts, unfedRun>>

startVars == <<isStreaming, startDisabled, stopDisabled, camPending, vidPending>>

voiceVars == <<micPending, isRecording, audioAnalysisInterval, voiceInFlight>>

loopVars == <<rafPending, inFlight, lastDetectionTime, prevExecTime>>

sessionVars == <<sessionId, windowGetSessionId>>

moodVars == <<faceMoodValue, voiceMoodValue, overallMoodValue>>

fetchVars == <<saveInFlight, historyInFlight, moodInFlight, emotionHistoryTable>>

audioVars == <<dataArray, audioFeatures>>

speechVars == <<isListening, recognition, restartTimers>>

chatVars == <<chatInFlight, chatDelayed, therapyAdviceText>>

streamVars == <<stream, strayVideo, recorderStream, strayAudio>>

orderVars == <<moodRequests, overallSource>>

panelsVars == <<loadingIndicator, errorMessage, noDataMessage, emotionVisualizations>>

timelineVars == <<panelsVars, errorText, currentTimePeriod, timelineChart,
                  timelineFetching, timelineParsing>>

adviceVars == <<currentEmotionalState, adviceHeader, therapistMessage,
                therapistParagraph, typewriter, adviceThinking, userMessages>>

cameraPage == <<now, startVars, statusText, loopVars, faceVars, voiceVars, quiet,
                sessionVars, moodVars, fetchVars, audioVars, speechVars,
                chatVars, therapyAdviceContainer, sent, fetchFailed, streamVars,
                orderVars, adviceVars>>

textChatVars == <<chatContainer, typingIndicator, aiCalls>>

otherModules == <<fetchFailed, adviceVars, timelineVars, textChatVars>>

----------------------------------------------------------------------------
(* getStableEmotion, camera.js:512-537 *)

(* variant: pop() in place of shift(), the newest label is dropped *)
PushHistoryPop(h, e) ==
    LET a == Append(h, e)
    IN  IF Len(a) > HistoryCapacity THEN SubSeq(a, 1, HistoryCapacity) ELSE a

(* emotionHistory.push(newEmotion); if (length > 5) shift() *)
PushHistory(h, e) ==
    LET a == Append(h, e)
    IN  IF Len(a) > HistoryCapacity THEN Tail(a) ELSE a

(* counts[emotion] after the forEach *)
RECURSIVE CountOf(_, _)
CountOf(h, e) ==
    IF h = <<>> THEN 0
    ELSE (IF Head(h) = e THEN 1 ELSE 0) + CountOf(Tail(h), e)

(* Object.entries(counts): the keys in the order they were first inserted *)
RECURSIVE KeysOf(_, _)
KeysOf(h, seen) ==
    IF h = <<>> THEN <<>>
    ELSE IF Head(h) \in seen THEN KeysOf(Tail(h), seen)
         ELSE <<Head(h)>> \o KeysOf(Tail(h), seen \cup {Head(h)})

(* variant: count >= maxCount, the last tied entry wins *)
BeatsOrTies(count, maxCount) == count >= maxCount

(* if (count > maxCount) *)
Beats(count, maxCount) == count > maxCount

(* the for..of loop over the entries, carrying (maxCount, stableEmotion) *)
RECURSIVE ScanEntries(_, _, _, _)
ScanEntries(keys, h, maxCount, stable) ==
    IF keys = <<>> THEN stable
    ELSE LET c == CountOf(h, Head(keys))
         IN  IF Beats(c, maxCount)
             THEN ScanEntries(Tail(keys), h, c, Head(keys))
             ELSE ScanEntries(Tail(keys), h, maxCount, stable)

(* variant: the vote is skipped and the default is returned *)
MostFrequentDefault(h, newEmotion) == newEmotion

(* the label returned for the window h after newEmotion was pushed *)
MostFrequent(h, newEmotion) == ScanEntries(KeysOf(h, {}), h, 0, newEmotion)

----------------------------------------------------------------------------
(* detectFaces, camera.js:540-558: the synchronous prefix of one call made *)
(* while isStreaming holds.  Returns the new loop state.                   *)

(* variant: the gate compares the wrong way round and never blocks *)
GateBlockedNever(t, last) == last - t > detectionInterval

(* if (now - lastDetectionTime < detectionInterval) *)
GateBlocked(t, last) == t - last < detectionInterval

DetectFacesEntry(raf, infl, videoReady) ==
    IF GateBlocked(now, lastDetectionTime)
    THEN [raf |-> raf + 1, infl |-> infl,
          last |-> lastDetectionTime, prev |-> prevExecTime]
    ELSE IF ~videoReady
    THEN [raf |-> raf + 1, infl |-> infl,
          last |-> now, prev |-> lastDetectionTime]
    ELSE [raf |-> raf, infl |-> infl + 1,
          last |-> now, prev |-> lastDetectionTime]

(* variant: the frequency limit is missing *)
ShouldSaveUnlimited(emotion, t, last) == emotion # NoFace

(* saveEmotion's condition, camera.js:141 *)
ShouldSave(emotion, t, last) ==
    emotion # NoFace /\ t - last > emotionSaveInterval

(* variant: threshold two lower *)
ShouldResetEarly(count, cur) == count > NoFaceThreshold - 2 /\ cur # NoFace

(* variant: threshold one higher *)
ShouldResetLate(count, cur) == count > NoFaceThreshold + 1 /\ cur # NoFace

(* the no-face branch's condition, camera.js:693 *)
ShouldReset(count, cur) == count > NoFaceThreshold /\ cur # NoFace

----------------------------------------------------------------------------
(* JavaScript numbers, as far as calculateAudioFeatures needs them: the     *)
(* rational n/d in lowest terms, or its square root when root is set.       *)
(* d = 0 stands for the values a division by zero produces: NaN (n = 0),    *)
(* Infinity (n = 1) and -Infinity (n = -1).  Rounding of finite results is  *)
(* not modelled.                                                            *)

NaN == [n |-> 0, d |-> 0, root |-> FALSE]

Infinity == [n |-> 1, d |-> 0, root |-> FALSE]

IsNaN(x) == x.d = 0 /\ x.n = 0

IsInfinite(x) == x.d = 0 /\ x.n # 0

Abs(k) == IF k < 0 THEN -k ELSE k

Sign(k) == IF k < 0 THEN -1 ELSE IF k > 0 THEN 1 ELSE 0

RECURSIVE GCD(_, _)
GCD(a, b) == IF b = 0 THEN a ELSE GCD(b, a % b)

(* the number n/d, d >= 0 *)
Rat(n, d) ==
    IF d = 0 THEN [n |-> Sign(n), d |-> 0, root |-> FALSE]
    ELSE LET g == GCD(Abs(n), d)
         IN  [n |-> n \div g, d |-> d \div g, root |-> FALSE]

(* x + y *)
Plus(x, y) ==
    IF IsNaN(x) \/ IsNaN(y) THEN NaN
    ELSE IF x.d = 0 /\ y.d = 0 THEN (IF x.n = y.n THEN x ELSE NaN)
    ELSE IF x.d = 0 THEN x
    ELSE IF y.d = 0 THEN y
    ELSE LET g == GCD(x.d, y.d)
             l == (x.d \div g) * y.d
         IN  Rat(x.n * (l \div x.d) + y.n * (l \div y.d), l)

(* x - y *)
Minus(x, y) == Plus(x, [y EXCEPT !.n = -y.n])

(* x * y *)
Times(x, y) ==
    IF IsNaN(x) \/ IsNaN(y) THEN NaN
    ELSE IF x.d = 0 \/ y.d = 0 THEN Rat(Sign(x.n) * Sign(y.n), 0)
    ELSE LET g1 == GCD(Abs(x.n), y.d)
             g2 == GCD(Abs(y.n), x.d)
         IN  Rat((x.n \div g1) * (y.n \div g2), (x.d \div g2) * (y.d \div g1))

(* x / y: a zero divisor gives NaN for 0/0 and an infinity otherwise *)
Over(x, y) ==
    IF IsNaN(x) \/ IsNaN(y) THEN NaN
    ELSE IF y.d = 0 THEN (IF x.d = 0 THEN NaN ELSE Rat(0, 1))
    ELSE IF x.d = 0 THEN (IF y.n < 0 THEN [x EXCEPT !.n = -x.n] ELSE x)
    ELSE IF y.n = 0 THEN Rat(Sign(x.n), 0)
    ELSE Times(x, Rat(Sign(y.n) * y.d, Abs(y.n)))

(* Math.sqrt(x), x not itself a root *)
Sqrt(x) ==
    IF IsNaN(x) \/ x.n < 0 THEN NaN
    ELSE IF x.d = 0 \/ x.n = 0 \/ x = Rat(1, 1) THEN x
    ELSE [x EXCEPT !.root = TRUE]

(* 1 - x, kept by its operand, which may be a root *)
OneMinus(x) == [oneMinus |-> x]

(* Math.max(0, x): NaN stays NaN *)
MathMax0(x) ==
    IF IsNaN(x) THEN NaN ELSE IF x.n < 0 THEN Rat(0, 1) ELSE x

(* Math.min(1, x): NaN stays NaN; sqrt(q) > 1 exactly when q > 1 *)
MathMin1(x) ==
    IF IsNaN(x) THEN NaN
    ELSE IF x.d = 0 THEN (IF x.n > 0 THEN Rat(1, 1) ELSE x)
    ELSE IF x.n > x.d THEN Rat(1, 1) ELSE x

(* Math.min(1, Math.max(0, x)), text-chat.js:814-818 *)
Clamp(x) == MathMin1(MathMax0(x))

----------------------------------------------------------------------------
(* calculateAudioFeatures, text-chat.js:758-827.  A snapshot is the         *)
(* sequence of its bytes; bin i of the code is element i + 1.               *)

(* Math.floor(bufferLength * tenths / 10); for a power of two the double    *)
(* product is never within rounding distance of an integer                  *)
FloorTenths(bufferLength, tenths) == (bufferLength * tenths) \div 10

bassRange(bufferLength) == FloorTenths(bufferLength, 1)

(* variant: the low-mid band ends where it starts *)
lowMidRangeEmpty(bufferLength) == FloorTenths(bufferLength, 1)

lowMidRange(bufferLength) == FloorTenths(bufferLength, 3)

midRange(bufferLength) == FloorTenths(bufferLength, 6)

presenceRange(bufferLength) == FloorTenths(bufferLength, 8)

brillianceRange(bufferLength) == bufferLength

(* the five slices, as [lo, hi) over bin indices, in the order of the code *)
Bands(bufferLength) ==
    << [name |-> "bass", lo |-> 0, hi |-> bassRange(bufferLength)],
       [name |-> "lowMid", lo |-> bassRange(bufferLength),
                           hi |-> lowMidRange(bufferLength)],
       [name |-> "mid", lo |-> lowMidRange(bufferLength),
                        hi |-> midRange(bufferLength)],
       [name |-> "presence", lo |-> midRange(bufferLength),
                             hi |-> presenceRange(bufferLength)],
       [name |-> "brilliance", lo |-> presenceRange(bufferLength),
                               hi |-> bufferLength] >>

(* frequencyData.slice(lo, hi).reduce((sum, val) => sum + val, 0); the sums *)
(* of this section are exact, so they are taken by halves, which gives the  *)
(* same value as the code's left-to-right order                             *)
RECURSIVE SumBins(_, _, _)
SumBins(frequencyData, lo, hi) ==
    IF lo >= hi THEN 0
    ELSE IF hi = lo + 1 THEN frequencyData[lo + 1]
    ELSE LET half == (lo + hi) \div 2
         IN  SumBins(frequencyData, lo, half) + SumBins(frequencyData, half, hi)

(* slice(lo, hi).reduce((sum, val) => sum + val * weight, 0) / (range * 255) *)
(* with the weight in tenths                                                 *)
BandEnergy(frequencyData, lo, hi, tenths, range) ==
    Over(Rat(SumBins(frequencyData, lo, hi) * tenths, 10), Rat(range * 255, 1))

(* the loop of text-chat.js:799-802: sum of i * frequencyData[i], lo <= i < hi *)
RECURSIVE WeightedIndexSum(_, _, _)
WeightedIndexSum(frequencyData, lo, hi) ==
    IF lo >= hi THEN 0
    ELSE IF hi = lo + 1 THEN lo * frequencyData[lo + 1]
    ELSE LET half == (lo + hi) \div 2
         IN  WeightedIndexSum(frequencyData, lo, half)
               + WeightedIndexSum(frequencyData, half, hi)

(* the reduce of text-chat.js:807-810: sum of diff * diff * val, lo <= i < hi *)
RECURSIVE SpreadSum(_, _, _, _)
SpreadSum(frequencyData, lo, hi, centroid) ==
    IF lo >= hi THEN Rat(0, 1)
    ELSE IF hi = lo + 1
    THEN IF frequencyData[lo + 1] = 0
         THEN Rat(0, 1)   \* diff is finite, so diff * diff * 0 is 0
         ELSE LET diff == Minus(Rat(lo, Len(frequencyData)), centroid)
              IN  Times(Times(diff, diff), Rat(frequencyData[lo + 1], 1))
    ELSE LET half == (lo + hi) \div 2
         IN  Plus(SpreadSum(frequencyData, lo, half, centroid),
                  SpreadSum(frequencyData, half, hi, centroid))

calculateAudioFeatures(frequencyData) ==
    LET bufferLength == Len(frequencyData)
        b == Bands(bufferLength)
        bassEnergy ==
            BandEnergy(frequencyData, b[1].lo, b[1].hi, 12, bassRange(bufferLength))
        lowMidEnergy ==
            BandEnergy(frequencyData, b[2].lo, b[2].hi, 15,
                       lowMidRange(bufferLength) - bassRange(bufferLength))
        midEnergy ==
            BandEnergy(frequencyData, b[3].lo, b[3].hi, 20,
                       midRange(bufferLength) - lowMidRange(bufferLength))
        presenceEnergy ==
            BandEnergy(frequencyData, b[4].lo, b[4].hi, 18,
                       presenceRange(bufferLength) - midRange(bufferLength))
        brillianceEnergy ==
            BandEnergy(frequencyData, b[5].lo, b[5].hi, 13,
                       brillianceRange(bufferLength) - presenceRange(bufferLength))
        totalWeight == SumBins(frequencyData, 0, bufferLength)
        totalEnergy == Over(Rat(totalWeight, 1), Rat(bufferLength * 255, 1))
        pitch == Over(Plus(Times(presenceEnergy, Rat(15, 10)), brillianceEnergy),
                      Plus(bassEnergy, lowMidEnergy))
        volume == Over(Plus(Plus(Times(midEnergy, Rat(2, 1)),
                                 Times(presenceEnergy, Rat(15, 10))),
                            bassEnergy),
                       Rat(3, 1))
        speechRate == Over(Plus(presenceEnergy, midEnergy),
                           Plus(bassEnergy, lowMidEnergy))
        spectralCentroid ==
            IF totalWeight > 0
            THEN Over(Over(Rat(WeightedIndexSum(frequencyData, 0, bufferLength), 1),
                           Rat(totalWeight, 1)),
                      Rat(bufferLength, 1))
            ELSE Rat(0, 1)
        spectralSpread ==
            Sqrt(Over(SpreadSum(frequencyData, 0, bufferLength, spectralCentroid),
                      Rat(totalWeight, 1)))
    IN  [pitch |-> Clamp(pitch),
         volume |-> Clamp(volume),
         speechRate |-> Clamp(speechRate),
         spectralCentroid |-> Clamp(spectralCentroid),
         spectralSpread |-> Clamp(spectralSpread),
         bassEnergy |-> bassEnergy,
         lowMidEnergy |-> lowMidEnergy,
         midEnergy |-> midEnergy,
         presenceEnergy |-> presenceEnergy,
         brillianceEnergy |-> brillianceEnergy,
         totalEnergy |-> totalEnergy,
         consistency |-> OneMinus(spectralSpread)]

(* analyser.frequencyBinCount: half a power-of-two fftSize, 16 at the least; *)
(* the page sets fftSize = 2048 (text-chat.js:434), which gives 1024         *)
SnapshotLengths == {16, 32, 64, 128, 256, 512, 1024}

(* a snapshot of silence *)
Silence(bufferLength) == [i \in 1..bufferLength |-> 0]

(* snapshots of 16 bins with one bin of each band silent or saturated and   *)
(* the other bins silent                                                    *)
Tones ==
    {[i \in 1..16 |-> IF (i - 1) \in on THEN 255 ELSE 0] :
        on \in SUBSET {0, 2, 6, 10, 14}}

(* a snapshot whose only sound is one saturated bin *)
OneBin(bufferLength, bin) == [i \in 1..bufferLength |-> IF i - 1 = bin THEN 255 ELSE 0]

(* what getByteFrequencyData may deliver in the audio specification *)
Snapshots ==
    Tones \cup {Silence(bufferLength) : bufferLength \in SnapshotLengths}
          \cup {OneBin(1024, bin) : bin \in {500, 700}}

(* what it delivers in the other specifications *)
QuietRoom == {Silence(16)}

----------------------------------------------------------------------------
(* Session id, camera.js:24-33 and text-chat.js:419-427 *)

(* the value Math.random() gave camera.js on this page load; ids are opaque *)
PageSessionId == "k3f9x2a7"

(* values a later Math.random() draw may give *)
FreshIds == {PageSessionId, "q8m1z5c0"}

(* variant: the fallback branch is always taken *)
getSessionIdFallback(fresh) == fresh

(* getSessionId of text-chat.js, fresh being what its fallback would draw *)
getSessionId(fresh) == IF windowGetSessionId THEN sessionId ELSE fresh

----------------------------------------------------------------------------
(* The mood panel: faceMoodValue, voiceMoodValue and overallMoodValue *)

NotDetected == "Not detected"

NotAnalyzed == "Not analyzed"

(* a field the backend left out of its answer *)
Null == "null"

(* moods the backend reports *)
ServerMoods == {"Happy", "Sad"}

(* result.data of GET /api/combined-mood *)
MoodResults ==
    [overall_mood : ServerMoods \cup {Null}, voice_emotion : ServerMoods \cup {Null}]

(* the answer to POST /api/voice-analysis *)
VoiceResults ==
    [voice_emotion : ServerMoods, face_emotion : ServerMoods \cup {Null},
     overall_mood : ServerMoods \cup {Null}]

(* the three elements' textContent *)
Dom ==
    [faceMoodValue |-> faceMoodValue, voiceMoodValue |-> voiceMoodValue,
     overallMoodValue |-> overallMoodValue]

(* variant: the face element is consulted instead *)
VoiceNotYetSetByFace(dom) == dom.faceMoodValue = NotDetected

(* voiceMoodValue.textContent === 'Not detected', camera.js:485 *)
VoiceNotYetSet(dom) == dom.voiceMoodValue = NotDetected

(* faceMoodValue.textContent === 'Not detected', text-chat.js:897 *)
FaceNotYetSet(dom) == dom.faceMoodValue = NotDetected

(* the textContent assignments of updateOverallMoodFromServer, camera.js:463-497 *)
updateOverallMoodFromServer(dom, data) ==
    (IF data.overall_mood # Null
     THEN <<[element |-> "overallMoodValue", text |-> data.overall_mood]>>
     ELSE <<>>)
    \o
    (IF data.voice_emotion # Null /\ VoiceNotYetSet(dom)
     THEN <<[element |-> "voiceMoodValue", text |-> data.voice_emotion]>>
     ELSE <<>>)

(* the textContent assignments of updateVoiceEmotionDisplay, text-chat.js:857-909 *)
updateVoiceEmotionDisplay(dom, analysisResult) ==
    <<[element |-> "voiceMoodValue", text |-> analysisResult.voice_emotion]>>
    \o
    (IF analysisResult.overall_mood # Null
     THEN <<[element |-> "overallMoodValue", text |-> analysisResult.overall_mood]>>
     ELSE <<>>)
    \o
    (IF analysisResult.face_emotion # Null /\ FaceNotYetSet(dom)
     THEN <<[element |-> "faceMoodValue", text |-> analysisResult.face_emotion]>>
     ELSE <<>>)

(* the body processSpeech posts to /api/chat, text-chat.js:554-559 *)
processSpeechBody(dom, transcript, id) ==
    [message |-> transcript,
     emotion |-> IF dom.overallMoodValue = "" THEN "neutral" ELSE dom.overallMoodValue,
     chat_type |-> "voice",
     session_id |-> id]

(* the panel after the assignments were made in order *)
RECURSIVE ApplyWrites(_, _)
ApplyWrites(dom, writes) ==
    IF writes = <<>> THEN dom
    ELSE ApplyWrites([dom EXCEPT ![Head(writes).element] = Head(writes).text],
                     Tail(writes))

----------------------------------------------------------------------------
(* Texts shown by the therapist and the chat: sequences of code points *)

(* \s of a JavaScript regular expression *)
IsWhitespace(c) ==
    c \in {9, 10, 11, 12, 13, 32, 160, 5760, 8232, 8233, 8239, 8287, 12288, 65279}
          \cup 8192..8202

(* a character the class [^\x20-\x7E\s.,?!;:()\-'"/\\&$@#%^*+=[\]{}|<>] does *)
(* not match: the punctuation it lists lies inside \x20-\x7E              *)
Allowed(c) == c \in 32..126 \/ IsWhitespace(c)

(* text.replace(/[^...]/g, ''), part_001:259 and 716 *)
Sanitize(text) == SelectSeq(text, Allowed)

(* texts the backend may answer a chat request with:                       *)
(* "OK", "a b c" and "caf" followed by U+00E9                              *)
ReplyTexts == {<<79, 75>>, <<97, 32, 98, 32, 99>>, <<99, 97, 102, 233>>}

(* the JSON body of an answer to POST /api/chat *)
ChatResults == [status : {"success", "error"}, response : ReplyTexts]

(* what the recognizer may hear *)
Transcripts == {"", "hello"}

(* data.count of an answer to GET /api/emotions *)
HistoryCounts == {0, 1}

(* therapyAdviceText.textContent = response, text-chat.js:604 *)
updateTherapistResponse(response) == response

----------------------------------------------------------------------------
(* s without its i-th element *)
RemoveAt(s, i) == SubSeq(s, 1, i - 1) \o SubSeq(s, i + 1, Len(s))

----------------------------------------------------------------------------
(* The therapeutic advice module, part_001.  It runs on the camera page   *)
(* and shares therapyAdviceText and therapyAdviceContainer with the voice *)
(* module.  A hard-coded string is given by an excerpt of it that keeps   *)
(* its characters outside ASCII, and by its length.                       *)

Unknown == "Unknown"

(* "Thinking...", part_001:248 *)
Thinking == <<84, 104, 105, 110, 107, 105, 110, 103, 46, 46, 46>>

(* what the user may type into userResponseInput *)
UserTexts == {"why am i sad?", "i feel better"}

Piece(excerpt, length) == [excerpt |-> excerpt, length |-> length]

Join(a, b) == [excerpt |-> a.excerpt \o b.excerpt, length |-> a.length + b.length]

(* the variables of the camera page's other scripts *)
cameraScripts == <<now, startVars, statusText, loopVars, faceVars, voiceVars, quiet,
                   sessionVars, moodVars, fetchVars, audioVars, speechVars,
                   chatInFlight, chatDelayed, sent, fetchFailed, streamVars,
                   orderVars>>

(* part_001:81-93 *)
hasEmotionChanged(oldState, newState) ==
    IF oldState.overall = newState.overall /\ oldState.overall # Unknown THEN FALSE
    ELSE IF oldState.overall = Unknown /\ newState.overall # NotAnalyzed THEN TRUE
    ELSE IF oldState.face # newState.face /\ newState.face # NotDetected THEN TRUE
    ELSE IF oldState.voice # newState.voice /\ newState.voice # NotDetected THEN TRUE
    ELSE FALSE

(* part_001:131-199 *)
getAdviceHeaderForEmotion(emotion) ==
    CASE emotion = "Happy" -> "Reinforcing Positive Emotions"
      [] emotion = "Sad" -> "Coping with Sadness"
      [] emotion = "Neutral" -> "Emotional Check-in"
      [] OTHER -> "Therapeutic Guidance"

(* part_001:552-656: "It", "sad" and, by default, "Our" *)
getTherapeuticAdviceForEmotion(emotion) ==
    CASE emotion = "Happy" -> Piece(<<73, 116>>, 388)
      [] emotion = "Sad" -> Piece(<<115, 97, 100>>, 572)
      [] OTHER -> Piece(<<79, 117, 114>>, 273)

(* the acknowledgment getEnhancedTherapistResponse opens with,            *)
(* part_001:334-348: "po", "sa" and, for the template of line 346, "be"   *)
Acknowledgment(emotion) ==
    CASE emotion = "Neutral" -> Piece(<<>>, 0)
      [] emotion = "Happy" -> Piece(<<112, 111>>, 78)
      [] emotion = "Sad" -> Piece(<<115, 97>>, 60)
      [] emotion = Unknown -> Piece(<<98, 101>>, 45)
      [] emotion = NotAnalyzed -> Piece(<<98, 101>>, 50)
      [] OTHER -> Piece(<<98, 101>>, 38 + 5)

(* part_001:329-383 for the texts of UserTexts.  "why am i sad?" is a     *)
(* question with 'why' and 'sad' (line 392): its answer holds U+2014.     *)
(* "i feel better" matches no theme of lines 362-372; it holds 'better'   *)
(* (line 413) and has fewer than five words (line 379).                   *)
getEnhancedTherapistResponse(userText, emotion) ==
    LET response == Acknowledgment(emotion)
    IN  IF userText = "why am i sad?"
        THEN Join(response, Piece(<<115, 8212, 108>>, 284))
        ELSE Join(IF response.length < 60
                  THEN Join(response, Piece(<<103, 108>>, 226))
                  ELSE response,
                  Piece(<<63>>, 56))

InitAdvice ==
    /\ currentEmotionalState = [face |-> Unknown, voice |-> Unknown, overall |-> Unknown]
    /\ adviceHeader = ""
    /\ therapistMessage = TRUE
    /\ therapistParagraph = <<>>
    /\ typewriter = [text |-> <<>>, i |-> 0, timer |-> FALSE]
    /\ adviceThinking = <<>>
    /\ userMessages = <<>>

(* typeWriterEffect(adviceText, text), part_001:705-767, up to the first  *)
(* timer of type(); the paragraph of the message it replaces is typed no  *)
(* further on the page                                                    *)
typeWriterEffect(text) ==
    IF text = <<>>
    THEN UNCHANGED <<therapyAdviceText, therapistParagraph, typewriter>>
    ELSE LET sanitizedText == Sanitize(text)
         IN  /\ therapyAdviceText' = <<>>
             /\ IF sanitizedText # <<>>
                THEN /\ therapistParagraph' = <<sanitizedText[1]>>
                     /\ typewriter' = [text |-> sanitizedText, i |-> 1, timer |-> TRUE]
                ELSE /\ therapistParagraph' = <<>>
                     /\ typewriter' = [text |-> <<>>, i |-> 0, timer |-> FALSE]

(* the 3 s interval fires: checkEmotionUpdates (part_001:53-78) and       *)
(* generateTherapeuticAdvice (96-128) *)
EmotionCheck ==
    LET newState == [face |-> faceMoodValue, voice |-> voiceMoodValue,
                     overall |-> overallMoodValue]
        untouched == /\ faceMoodValue = NotDetected
                     /\ voiceMoodValue = NotDetected
                     /\ overallMoodValue = NotAnalyzed
    IN  /\ IF ~untouched /\ hasEmotionChanged(currentEmotionalState, newState)
           THEN /\ currentEmotionalState' = newState
                /\ IF newState.overall \in {Unknown, NotAnalyzed}
                   THEN UNCHANGED <<therapyAdviceContainer, adviceHeader,
                                    therapyAdviceText, therapistParagraph, typewriter>>
                   ELSE /\ therapyAdviceContainer' = TRUE
                        /\ adviceHeader' = getAdviceHeaderForEmotion(newState.overall)
                        /\ typeWriterEffect(
                               getTherapeuticAdviceForEmotion(newState.overall).excerpt)
           ELSE UNCHANGED <<currentEmotionalState, therapyAdviceContainer,
                            adviceHeader, therapyAdviceText, therapistParagraph,
                            typewriter>>
        /\ UNCHANGED <<cameraScripts, therapistMessage, adviceThinking, userMessages,
                       timelineVars,
                   textChatVars>>

(* a timer of type() fires, part_001:746-758 *)
TypeFire ==
    /\ typewriter.timer
    /\ IF typewriter.i < Len(typewriter.text)
       THEN /\ therapistParagraph' =
                   Append(therapistParagraph, typewriter.text[typewriter.i + 1])
            /\ typewriter' = [typewriter EXCEPT !.i = @ + 1]
       ELSE /\ typewriter' = [typewriter EXCEPT !.timer = FALSE]
            /\ UNCHANGED therapistParagraph
    /\ UNCHANGED <<cameraScripts, therapyAdviceText, therapyAdviceContainer,
                   currentEmotionalState, adviceHeader, therapistMessage,
                   adviceThinking, userMessages, timelineVars,
                   textChatVars>>

(* userResponseForm is submitted with userText typed; submitUserResponse  *)
(* (part_001:202-243) and generateTherapistResponse up to its timer (246-251) *)
SubmitResponse(userText) ==
    /\ Len(adviceThinking) < MaxThinking
    /\ Len(userMessages) < MaxUserMessages
    /\ IF therapistMessage
       THEN userMessages' = Append(userMessages, userText)
       ELSE UNCHANGED userMessages
    /\ therapyAdviceText' = Thinking
    /\ adviceThinking' = Append(adviceThinking, userText)
    /\ UNCHANGED <<cameraScripts, therapyAdviceContainer, currentEmotionalState,
                   adviceHeader, therapistMessage, therapistParagraph, typewriter,
                   timelineVars,
                   textChatVars>>

(* the 1 s timer of generateTherapistResponse fires, part_001:251-275 *)
ThinkingDone ==
    /\ adviceThinking # <<>>
    /\ adviceThinking' = Tail(adviceThinking)
    /\ LET response == getEnhancedTherapistResponse(Head(adviceThinking),
                                                    currentEmotionalState.overall)
           sanitizedResponse == Sanitize(response.excerpt)
       IN  typeWriterEffect(sanitizedResponse)
    /\ UNCHANGED <<cameraScripts, therapyAdviceContainer, currentEmotionalState,
                   adviceHeader, therapistMessage, userMessages, timelineVars,
                   textChatVars>>

----------------------------------------------------------------------------
(* The timeline page, part_000 *)

(* data-hours of the time period buttons *)
TimePeriods == {1, 6, 24}

(* what the JSON body of an answer to GET /api/emotion-timeline can be:    *)
(* a status other than 'success', no records, records, or records that     *)
(* processEmotionData cannot digest                                        *)
TimelineBodies == {"failure", "empty", "records", "malformed"}

(* after DOMContentLoaded: initTimeline has called loadEmotionData(1),     *)
(* which has run up to its await fetch (part_000:76-115)                   *)
InitTimeline ==
    /\ loadingIndicator = TRUE
    /\ errorMessage = FALSE
    /\ noDataMessage = FALSE
    /\ emotionVisualizations = FALSE
    /\ errorText = ""
    /\ currentTimePeriod = 1
    /\ timelineChart = FALSE
    /\ timelineFetching = <<1>>
    /\ timelineParsing = <<>>

(* the catch block of loadEmotionData, part_000:141-146 *)
LoadFailed(message) ==
    /\ loadingIndicator' = FALSE
    /\ errorMessage' = TRUE
    /\ errorText' = message
    /\ UNCHANGED <<noDataMessage, emotionVisualizations>>

(* a time period button is clicked; part_000:81-92 and loadEmotionData up *)
(* to its await fetch (97-115), with destroyCharts (592-607) *)
PeriodClick(hours) ==
    /\ Len(timelineFetching) + Len(timelineParsing) < MaxTimelineLoads
    /\ currentTimePeriod' = hours
    /\ loadingIndicator' = TRUE
    /\ errorMessage' = FALSE
    /\ noDataMessage' = FALSE
    /\ emotionVisualizations' = FALSE
    /\ timelineChart' = FALSE
    /\ timelineFetching' = Append(timelineFetching, hours)
    /\ UNCHANGED <<errorText, timelineParsing, cameraPage,
                   textChatVars>>

(* fetch rejects; part_000:115 and the catch block *)
TimelineFetchFailed ==
    /\ \E i \in DOMAIN timelineFetching :
         timelineFetching' = RemoveAt(timelineFetching, i)
    /\ LoadFailed("Failed to fetch")
    /\ UNCHANGED <<currentTimePeriod, timelineChart, timelineParsing, cameraPage,
                   textChatVars>>

(* fetch resolves with a status that is not ok; part_000:117-119 *)
TimelineNotOk ==
    /\ \E i \in DOMAIN timelineFetching :
         timelineFetching' = RemoveAt(timelineFetching, i)
    /\ LoadFailed("Server returned")
    /\ UNCHANGED <<currentTimePeriod, timelineChart, timelineParsing, cameraPage,
                   textChatVars>>

(* fetch resolves with response.ok; the call awaits response.json() *)
TimelineFetched ==
    /\ \E i \in DOMAIN timelineFetching :
         /\ timelineFetching' = RemoveAt(timelineFetching, i)
         /\ timelineParsing' = Append(timelineParsing, timelineFetching[i])
    /\ UNCHANGED <<panelsVars, errorText, currentTimePeriod, timelineChart,
                   cameraPage,
                   textChatVars>>

(* response.json() rejects; part_000:121 and the catch block *)
TimelineParseFailed ==
    /\ \E i \in DOMAIN timelineParsing :
         timelineParsing' = RemoveAt(timelineParsing, i)
    /\ LoadFailed("Unexpected token")
    /\ UNCHANGED <<currentTimePeriod, timelineChart, timelineFetching, cameraPage,
                   textChatVars>>

(* response.json() resolves; part_000:123-146 with processEmotionData *)
TimelineParsed(body) ==
    /\ \E i \in DOMAIN timelineParsing :
         timelineParsing' = RemoveAt(timelineParsing, i)
    /\ CASE body = "failure" ->
              /\ LoadFailed("Failed to load emotion data")
              /\ UNCHANGED timelineChart
         [] body = "empty" ->
              /\ loadingIndicator' = FALSE
              /\ noDataMessage' = TRUE
              /\ UNCHANGED <<errorMessage, emotionVisualizations, errorText,
                             timelineChart>>
         [] body = "records" ->
              /\ timelineChart' = TRUE
              /\ loadingIndicator' = FALSE
              /\ emotionVisualizations' = TRUE
              /\ UNCHANGED <<errorMessage, noDataMessage, errorText>>
         [] body = "malformed" ->
              /\ LoadFailed("Cannot read properties of undefined")
              /\ UNCHANGED timelineChart
    /\ UNCHANGED <<currentTimePeriod, timelineFetching, cameraPage,
                   textChatVars>>

NextTimeline ==
    \/ \E hours \in TimePeriods : PeriodClick(hours)
    \/ TimelineFetchFailed
    \/ TimelineNotOk
    \/ TimelineFetched
    \/ TimelineParseFailed
    \/ \E body \in TimelineBodies : TimelineParsed(body)

----------------------------------------------------------------------------
(* The text chat page, text-chat.js:1-383.  conversationHistory and       *)
(* userMood are written but decide nothing of what the page shows, and    *)
(* are left out.                                                          *)

(* what the user types, trimmed and not empty (text-chat.js:44-45) *)
UserChatTexts == {"i feel sad", "thank you"}

(* result.response of POST /api/chat, as aiResponse.split(' ') gives it *)
Replies ==
    {<<"Okay.">>,
     <<"Tell", "me", "more.">>,
     <<"It", "sounds", "like", "you", "have", "carried", "this", "for", "some", "time.">>}

(* words.slice(0, n) *)
Slice(words, n) == SubSeq(words, 1, IF n < Len(words) THEN n ELSE Len(words))

(* addMessageToChat, text-chat.js:78-110: a child is appended; dots is    *)
(* the number of dots that follow the words of its text                   *)
addMessageToChat(container, sender, words, dots) ==
    Append(container, [sender |-> sender, text |-> words, dots |-> dots])

(* chatContainer.removeChild(chatContainer.lastChild) *)
RemoveLastChild(container) == SubSeq(container, 1, Len(container) - 1)

(* the message the typing loop adds in the iteration at i, text-chat.js:219-220 *)
AddPartial(container, words, i) ==
    addMessageToChat(container, "ai", Slice(words, i + 2),
                     IF i + 2 < Len(words) THEN 3 ELSE 0)

InitChat ==
    /\ chatContainer = <<>>
    /\ typingIndicator = FALSE
    /\ aiCalls = <<>>

(* the submit handler, text-chat.js:29-32 -> sendMessage (43-75) with     *)
(* generateAIResponse up to its reading delay (175-182)                   *)
sendMessage(message) ==
    /\ Len(aiCalls) < MaxTextMessages
    /\ chatContainer' = addMessageToChat(chatContainer, "user", <<message>>, 0)
    /\ aiCalls' = Append(aiCalls, [phase |-> "reading", dotIndex |-> 0,
                                   thinkingInterval |-> FALSE,
                                   words |-> <<>>, i |-> 0])
    /\ typingIndicator' = FALSE
    /\ UNCHANGED <<cameraPage, timelineVars>>

(* the reading delay ends; text-chat.js:184-196, up to await fetch *)
ReadingDone ==
    \E c \in DOMAIN aiCalls :
        /\ aiCalls[c].phase = "reading"
        /\ aiCalls' = [aiCalls EXCEPT ![c].phase = "fetching",
                                      ![c].thinkingInterval = TRUE]
        /\ UNCHANGED <<chatContainer, typingIndicator, cameraPage, timelineVars>>

(* the thinking interval of a call fires, text-chat.js:187-194 *)
ThinkingFire ==
    \E c \in DOMAIN aiCalls :
        /\ aiCalls[c].thinkingInterval
        /\ LET added == addMessageToChat(chatContainer, "ai", <<"Thinking">>,
                                         aiCalls[c].dotIndex + 1)
           IN  chatContainer' = RemoveLastChild(added)
        /\ aiCalls' = [aiCalls EXCEPT ![c].dotIndex = (aiCalls[c].dotIndex + 1) % 3]
        /\ UNCHANGED <<typingIndicator, cameraPage, timelineVars>>

(* the catch block, text-chat.js:273-278 *)
CatchChatError(c) ==
    /\ chatContainer' =
         addMessageToChat(chatContainer, "ai", <<"I'm listening. Please continue.">>, 0)
    /\ aiCalls' = [aiCalls EXCEPT ![c].phase = "done"]
    /\ UNCHANGED typingIndicator

(* fetch rejects or response.json() throws; text-chat.js:196-208, 273-278 *)
ChatRejected ==
    \E c \in DOMAIN aiCalls :
        /\ aiCalls[c].phase = "fetching"
        /\ CatchChatError(c)
        /\ UNCHANGED <<cameraPage, timelineVars>>

(* the answer has a status other than 'success'; text-chat.js:268-272 *)
ChatNotSuccess ==
    \E c \in DOMAIN aiCalls :
        /\ aiCalls[c].phase = "fetching"
        /\ chatContainer' =
             addMessageToChat(chatContainer, "ai",
                              <<"I hear you. What else is on your mind?">>, 0)
        /\ aiCalls' = [aiCalls EXCEPT ![c].phase = "done"]
        /\ UNCHANGED <<typingIndicator, cameraPage, timelineVars>>

(* the answer has status 'success'; text-chat.js:210-224: the interval is *)
(* cleared and the first partial message is added                         *)
ChatSuccess(reply) ==
    \E c \in DOMAIN aiCalls :
        /\ aiCalls[c].phase = "fetching"
        /\ chatContainer' = AddPartial(chatContainer, reply, 0)
        /\ aiCalls' = [aiCalls EXCEPT ![c].phase = "typing",
                                      ![c].thinkingInterval = FALSE,
                                      ![c].words = reply,
                                      ![c].i = 0]
        /\ UNCHANGED <<typingIndicator, cameraPage, timelineVars>>

(* the loop goes on from the end of the iteration at aiCalls[c].i with    *)
(* the given children: the next iteration up to its typing delay          *)
(* (text-chat.js:217-224), or after the last one the choice of a filler   *)
(* (238-251) and the end of the call (263-267)                            *)
NextIteration(c, container) ==
    LET words == aiCalls[c].words
        i == aiCalls[c].i + 2
    IN  IF i < Len(words)
        THEN /\ chatContainer' = AddPartial(container, words, i)
             /\ aiCalls' = [aiCalls EXCEPT ![c].phase = "typing", ![c].i = i]
             /\ UNCHANGED typingIndicator
        ELSE \/ /\ chatContainer' = container
                /\ aiCalls' = [aiCalls EXCEPT ![c].phase = "filler"]
                /\ UNCHANGED typingIndicator
             \/ /\ chatContainer' = container
                /\ aiCalls' = [aiCalls EXCEPT ![c].phase = "done"]
                /\ typingIndicator' = FALSE

(* a typing delay ends; text-chat.js:226-234 *)
TypingDelayDone ==
    \E c \in DOMAIN aiCalls :
        /\ aiCalls[c].phase = "typing"
        /\ LET words == aiCalls[c].words
               i == aiCalls[c].i
           IN  IF i + 2 < Len(words) /\ chatContainer = <<>>
               THEN CatchChatError(c)     \* removeChild(null) throws
               ELSE LET container == IF i + 2 < Len(words)
                                     THEN RemoveLastChild(chatContainer)
                                     ELSE chatContainer
                    IN  IF i > 0 /\ i % 8 = 0
                        THEN /\ chatContainer' = container
                             /\ aiCalls' = [aiCalls EXCEPT ![c].phase = "pausing"]
                             /\ UNCHANGED typingIndicator
                        ELSE NextIteration(c, container)
        /\ UNCHANGED <<cameraPage, timelineVars>>

(* the 800 ms pause ends; text-chat.js:232-234 *)
PauseDone ==
    \E c \in DOMAIN aiCalls :
        /\ aiCalls[c].phase = "pausing"
        /\ NextIteration(c, chatContainer)
        /\ UNCHANGED <<cameraPage, timelineVars>>

(* the 500 ms before the filler end; text-chat.js:247-250 *)
FillerDelayDone ==
    \E c \in DOMAIN aiCalls :
        /\ aiCalls[c].phase = "filler"
        /\ \E filler \in {"*nods*", "hmm..."} :
             chatContainer' = addMessageToChat(chatContainer, "ai", <<filler>>, 0)
        /\ aiCalls' = [aiCalls EXCEPT ![c].phase = "afterFiller"]
        /\ UNCHANGED <<typingIndicator, cameraPage, timelineVars>>

(* the 1000 ms after the filler end; text-chat.js:250-267 *)
FillerShown ==
    \E c \in DOMAIN aiCalls :
        /\ aiCalls[c].phase = "afterFiller"
        /\ aiCalls' = [aiCalls EXCEPT ![c].phase = "done"]
        /\ typingIndicator' = FALSE
        /\ UNCHANGED <<chatContainer, cameraPage, timelineVars>>

NextChat ==
    \/ \E message \in UserChatTexts : sendMessage(message)
    \/ ReadingDone
    \/ ThinkingFire
    \/ ChatRejected
    \/ ChatNotSuccess
    \/ \E reply \in Replies : ChatSuccess(reply)
    \/ TypingDelayDone
    \/ PauseDone
    \/ FillerDelayDone
    \/ FillerShown

----------------------------------------------------------------------------
(* The camera page: camera.js and the voice module of text-chat.js *)

(* variant: every tick counts as a change of label *)
LabelChangedAlways(stableEmotion, emotion) == TRUE

(* stableEmotion !== currentEmotion, camera.js:658 *)
LabelChanged(stableEmotion, emotion) == stableEmotion # emotion

(* the requests in flight after the answer to the i-th of them wrote mood *)
(* to overallMoodValue: the older ones have been overtaken by it          *)
Overtake(requests, i, mood) ==
    [j \in DOMAIN requests |->
        IF j < i THEN [requests[j] EXCEPT !.newer = mood] ELSE requests[j]]

(* the answer to one request in flight of the pipeline arrives; mood is   *)
(* the overall mood it writes, Null if it writes none (camera.js:468,     *)
(* text-chat.js:883); nothing compares the order of issue and of arrival  *)
Answered(pipeline, mood) ==
    \E i \in DOMAIN moodRequests :
        /\ moodRequests[i].pipeline = pipeline
        /\ IF mood # Null
           THEN /\ moodRequests' = RemoveAt(Overtake(moodRequests, i, mood), i)
                /\ overallSource' = [mood |-> mood, newer |-> moodRequests[i].newer]
           ELSE /\ moodRequests' = RemoveAt(moodRequests, i)
                /\ UNCHANGED overallSource

(* variant: the text of the element is left as it was *)
updateEmotionDisplayStale(emotion) == emotionDisplay

(* the text updateEmotionDisplay gives emotionDisplay, camera.js:905-919 *)
updateEmotionDisplay(emotion) == emotion

Init ==
    /\ now = Epoch
    /\ isStreaming = FALSE
    /\ startDisabled = FALSE     \* loadModels has enabled the start button
    /\ stopDisabled = TRUE
    /\ statusText = "ready"      \* 'Models loaded successfully. Ready to start camera.'
    /\ camPending = 0
    /\ vidPending = 0
    /\ rafPending = 0
    /\ inFlight = 0
    /\ lastDetectionTime = 0
    /\ emotionHistory = <<>>
    /\ currentEmotion = NoFace
    /\ noFaceDetectionCount = 0
    /\ lastEmotionSaveTime = 0
    /\ emotionDisplay = Waiting
    /\ sessionId = PageSessionId
    /\ windowGetSessionId = TRUE
    /\ faceMoodValue = NotDetected
    /\ voiceMoodValue = NotDetected
    /\ overallMoodValue = NotAnalyzed
    /\ saveInFlight = 0
    /\ historyInFlight = 0
    /\ moodInFlight = 0
    /\ emotionHistoryTable = FALSE
    /\ micPending = 0
    /\ isRecording = FALSE
    /\ audioAnalysisInterval = FALSE
    /\ voiceInFlight = 0
    /\ dataArray = <<>>
    /\ audioFeatures = <<>>
    /\ isListening = FALSE
    /\ recognition = "off"
    /\ restartTimers = 0
    /\ chatInFlight = <<>>
    /\ chatDelayed = <<>>
    /\ therapyAdviceText = <<>>
    /\ therapyAdviceContainer = FALSE
    /\ observed = <<>>
    /\ missRun = 0
    /\ runStartEmotion = NoFace
    /\ prevExecTime = 0
    /\ posts = <<>>
    /\ quiet = FALSE
    /\ sent = {}
    /\ fetchFailed = FALSE
    /\ unfedRun = 0
    /\ moodRequests = <<>>
    /\ overallSource = [mood |-> Null, newer |-> Null]
    /\ stream = "null"
    /\ strayVideo = FALSE
    /\ recorderStream = "none"
    /\ strayAudio = FALSE
    /\ InitAdvice
    /\ InitTimeline
    /\ InitChat

(* The clock advances, up to limit ms after page load. *)
Tick(limit) ==
    /\ now + TimeStep <= Epoch + limit
    /\ now' = now + TimeStep
    /\ UNCHANGED <<startVars, statusText, loopVars, faceVars, voiceVars, quiet,
                   sessionVars, moodVars, fetchVars, audioVars, speechVars,
                   chatVars, therapyAdviceContainer, sent, streamVars, orderVars,
                   otherModules>>

(* startButton click, camera.js:725-745, up to await getUserMedia *)
StartClick(cap) ==
    /\ ~startDisabled
    /\ camPending + vidPending + rafPending + inFlight < cap
    /\ camPending + vidPending + micPending < cap
    /\ IF ~isStreaming
       THEN /\ camPending' = camPending + 1
            /\ statusText' = "starting"
       ELSE UNCHANGED <<camPending, statusText>>
    /\ quiet' = FALSE
    /\ UNCHANGED <<now, isStreaming, startDisabled, stopDisabled, vidPending,
                   loopVars, faceVars, voiceVars,
                   sessionVars, moodVars, fetchVars, audioVars, speechVars,
                   chatVars, therapyAdviceContainer, sent, streamVars, orderVars,
                   otherModules>>

(* getUserMedia resolves; the handler runs on to the video-ready await,   *)
(* camera.js:745-760 *)
CameraGranted ==
    /\ camPending > 0
    /\ camPending' = camPending - 1
    /\ vidPending' = vidPending + 1
    /\ stream' = "live"
    /\ strayVideo' = (strayVideo \/ stream = "live")
    /\ UNCHANGED <<now, isStreaming, startDisabled, stopDisabled, statusText,
                   loopVars, faceVars, voiceVars, quiet,
                   sessionVars, moodVars, fetchVars, audioVars, speechVars,
                   chatVars, therapyAdviceContainer, sent, recorderStream, strayAudio, orderVars,
                   otherModules>>

(* variant: the catch block asks for the camera again *)
CameraDeniedRetry ==
    /\ camPending > 0
    /\ statusText' = "error"
    /\ UNCHANGED <<now, isStreaming, startDisabled, stopDisabled, camPending,
                   vidPending, loopVars, faceVars, voiceVars, quiet,
                   sessionVars, moodVars, fetchVars, audioVars, speechVars,
                   chatVars, therapyAdviceContainer, sent, streamVars, orderVars,
                   otherModules>>

(* getUserMedia rejects; catch block, camera.js:833-837 *)
CameraDenied ==
    /\ camPending > 0
    /\ camPending' = camPending - 1
    /\ statusText' = "error"
    /\ UNCHANGED <<now, isStreaming, startDisabled, stopDisabled, vidPending,
                   loopVars, faceVars, voiceVars, quiet,
                   sessionVars, moodVars, fetchVars, audioVars, speechVars,
                   chatVars, therapyAdviceContainer, sent, streamVars, orderVars,
                   otherModules>>

(* the video-ready promise rejects (5 s timeout, play() or video error);  *)
(* catch block, camera.js:833-837 *)
VideoFailed ==
    /\ vidPending > 0
    /\ vidPending' = vidPending - 1
    /\ statusText' = "error"
    /\ UNCHANGED <<now, isStreaming, startDisabled, stopDisabled, camPending,
                   loopVars, faceVars, voiceVars, quiet,
                   sessionVars, moodVars, fetchVars, audioVars, speechVars,
                   chatVars, therapyAdviceContainer, sent, streamVars, orderVars,
                   otherModules>>

(* the video-ready promise resolves; camera.js:799-831: buttons, isStreaming, *)
(* detectFaces() and startAudioButton.click() -> startVoiceAnalysis up to its *)
(* await getUserMedia (text-chat.js:621-634) *)
VideoReady ==
    /\ vidPending > 0
    /\ vidPending' = vidPending - 1
    /\ startDisabled' = TRUE
    /\ stopDisabled' = FALSE
    /\ statusText' = "active"
    /\ isStreaming' = TRUE
    /\ \E videoReady \in BOOLEAN :
         LET r == DetectFacesEntry(rafPending, inFlight, videoReady)
         IN  /\ rafPending' = r.raf
             /\ inFlight' = r.infl
             /\ lastDetectionTime' = r.last
             /\ prevExecTime' = r.prev
    /\ IF ~isRecording
       THEN micPending' = micPending + 1
       ELSE UNCHANGED micPending
    /\ UNCHANGED <<now, camPending, faceVars, isRecording,
                   audioAnalysisInterval, voiceInFlight, quiet,
                   sessionVars, moodVars, fetchVars, audioVars, speechVars,
                   chatVars, therapyAdviceContainer, sent, streamVars, orderVars,
                   otherModules>>

(* stopButton click, camera.js:842-902, with stopAudioButton.click() ->   *)
(* stopVoiceAnalysis (text-chat.js:686-719) and its stopListening *)
StopClick ==
    /\ ~stopDisabled
    /\ IF isStreaming
       THEN /\ startDisabled' = FALSE
            /\ stopDisabled' = TRUE
            /\ statusText' = "stopped"
            /\ emotionDisplay' = Waiting
            /\ stream' = "null"
            /\ IF isRecording
               THEN /\ recorderStream' = "ended"
                    /\ audioAnalysisInterval' = FALSE
                    /\ isListening' = FALSE
                    /\ isRecording' = FALSE
                    /\ therapyAdviceContainer' = FALSE
               ELSE UNCHANGED <<recorderStream, audioAnalysisInterval, isListening,
                                isRecording, therapyAdviceContainer>>
            /\ isStreaming' = FALSE
            /\ quiet' = TRUE
       ELSE UNCHANGED <<startDisabled, stopDisabled, statusText, emotionDisplay,
                        stream, recorderStream,
                        audioAnalysisInterval, isListening, isRecording,
                        therapyAdviceContainer, isStreaming, quiet>>
    /\ UNCHANGED <<now, camPending, vidPending, loopVars, emotionHistory,
                   currentEmotion, noFaceDetectionCount, lastEmotionSaveTime,
                   observed, missRun, runStartEmotion, posts, unfedRun,
                   micPending, voiceInFlight, recognition, restartTimers,
                   sessionVars, moodVars, fetchVars, audioVars,
                   chatVars, sent, strayVideo, strayAudio, orderVars,
                   otherModules>>

(* an animation-frame callback runs detectFaces, camera.js:540-558 *)
RafFire ==
    /\ rafPending > 0
    /\ IF ~isStreaming
       THEN /\ rafPending' = rafPending - 1
            /\ UNCHANGED <<inFlight, lastDetectionTime, prevExecTime>>
       ELSE \E videoReady \in BOOLEAN :
              LET r == DetectFacesEntry(rafPending - 1, inFlight, videoReady)
              IN  /\ rafPending' = r.raf
                  /\ inFlight' = r.infl
                  /\ lastDetectionTime' = r.last
                  /\ prevExecTime' = r.prev
    /\ UNCHANGED <<now, startVars, statusText, faceVars, voiceVars, quiet,
                   sessionVars, moodVars, fetchVars, audioVars, speechVars,
                   chatVars, therapyAdviceContainer, sent, streamVars, orderVars,
                   otherModules>>

(* the recognizer returns a face whose best expression maps to label e    *)
(* with confidence > 0.2; camera.js:631-680 and 719, with                 *)
(* updateEmotionDashboard (408-453) and the calls of                      *)
(* updateOverallMoodFromServer (456-458) and saveEmotion (136-155) up to  *)
(* their await fetch *)
DetectFace(e) ==
    /\ inFlight > 0
    /\ inFlight' = inFlight - 1
    /\ rafPending' = rafPending + 1
    /\ noFaceDetectionCount' = 0
    /\ LET h == PushHistory(emotionHistory, e)
           stableEmotion == MostFrequent(h, e)
       IN  /\ emotionHistory' = h
           /\ faceMoodValue' = stableEmotion
           /\ moodInFlight' = moodInFlight + 1
           /\ IF LabelChanged(stableEmotion, currentEmotion)
              THEN /\ currentEmotion' = stableEmotion
                   /\ emotionDisplay' = updateEmotionDisplay(stableEmotion)
                   /\ IF ShouldSave(stableEmotion, now, lastEmotionSaveTime)
                      THEN /\ lastEmotionSaveTime' = now
                           /\ posts' = Append(posts, [t |-> now, emotion |-> stableEmotion])
                           /\ saveInFlight' = saveInFlight + 1
                      ELSE UNCHANGED <<lastEmotionSaveTime, posts, saveInFlight>>
              ELSE UNCHANGED <<currentEmotion, emotionDisplay,
                               lastEmotionSaveTime, posts, saveInFlight>>
    /\ sent' = sent \cup {[pipeline |-> "face", session_id |-> sessionId]}
    /\ moodRequests' = Append(moodRequests, [pipeline |-> "face", newer |-> Null])
    /\ observed' = Append(observed, e)
    /\ missRun' = 0
    /\ unfedRun' = 0
    /\ runStartEmotion' = currentEmotion'
    /\ UNCHANGED <<now, startVars, statusText, lastDetectionTime, prevExecTime,
                   voiceVars, quiet, sessionVars, voiceMoodValue, overallMoodValue,
                   historyInFlight, emotionHistoryTable, audioVars, speechVars,
                   chatVars, therapyAdviceContainer, streamVars, overallSource,
                   otherModules>>

(* the recognizer returns a face without expressions, or one whose best   *)
(* confidence is not above 0.2; camera.js:631-634, 681-686 and 719 *)
DetectUnusable ==
    /\ inFlight > 0
    /\ inFlight' = inFlight - 1
    /\ rafPending' = rafPending + 1
    /\ noFaceDetectionCount' = 0
    /\ missRun' = 0
    /\ unfedRun' = unfedRun + 1
    /\ runStartEmotion' = currentEmotion
    /\ UNCHANGED <<now, startVars, statusText, lastDetectionTime, prevExecTime,
                   voiceVars, quiet,
                   emotionHistory, currentEmotion, lastEmotionSaveTime,
                   emotionDisplay, observed, posts,
                   sessionVars, moodVars, fetchVars, audioVars, speechVars,
                   chatVars, therapyAdviceContainer, sent, streamVars, orderVars,
                   otherModules>>

(* the recognizer finds no face (or throws); camera.js:687-713 and 719 *)
DetectNoFace ==
    /\ inFlight > 0
    /\ inFlight' = inFlight - 1
    /\ rafPending' = rafPending + 1
    /\ noFaceDetectionCount' = noFaceDetectionCount + 1
    /\ IF ShouldReset(noFaceDetectionCount', currentEmotion)
       THEN /\ currentEmotion' = NoFace
            /\ emotionHistory' = <<>>
            /\ emotionDisplay' = NoFace
            /\ observed' = <<>>
       ELSE UNCHANGED <<currentEmotion, emotionHistory, emotionDisplay, observed>>
    /\ missRun' = missRun + 1
    /\ unfedRun' = unfedRun + 1
    /\ UNCHANGED <<now, startVars, statusText, lastDetectionTime, prevExecTime,
                   voiceVars, quiet, lastEmotionSaveTime, posts, runStartEmotion,
                   sessionVars, moodVars, fetchVars, audioVars, speechVars,
                   chatVars, therapyAdviceContainer, sent, streamVars, orderVars,
                   otherModules>>

(* the save request is answered with response.ok; camera.js:157-161 and  *)
(* loadEmotionHistory up to its await fetch (169-171) *)
SaveOk ==
    /\ saveInFlight > 0
    /\ saveInFlight' = saveInFlight - 1
    /\ historyInFlight' = historyInFlight + 1
    /\ sent' = sent \cup {[pipeline |-> "face", session_id |-> sessionId]}
    /\ UNCHANGED <<now, startVars, statusText, loopVars, faceVars, voiceVars, quiet,
                   sessionVars, moodVars, moodInFlight, emotionHistoryTable,
                   audioVars, speechVars, chatVars, therapyAdviceContainer,
                   streamVars, orderVars,
                   otherModules>>

(* variant: the catch block shows the failure in the status line *)
SaveFailedShown ==
    /\ saveInFlight > 0
    /\ saveInFlight' = saveInFlight - 1
    /\ statusText' = "error"
    /\ fetchFailed' = TRUE
    /\ UNCHANGED <<now, startVars, loopVars, faceVars, voiceVars, quiet,
                   sessionVars, moodVars, historyInFlight, moodInFlight,
                   emotionHistoryTable, audioVars, speechVars, chatVars,
                   therapyAdviceContainer, sent, streamVars, orderVars,
                   adviceVars, timelineVars,
                   textChatVars>>

(* the save request is rejected (catch, camera.js:163-165) or answered    *)
(* with a status that is not ok (157) *)
SaveFailed ==
    /\ saveInFlight > 0
    /\ saveInFlight' = saveInFlight - 1
    /\ fetchFailed' = TRUE
    /\ UNCHANGED <<now, startVars, statusText, loopVars, faceVars, voiceVars, quiet,
                   sessionVars, moodVars, historyInFlight, moodInFlight,
                   emotionHistoryTable, audioVars, speechVars, chatVars,
                   therapyAdviceContainer, sent, streamVars, orderVars,
                   adviceVars, timelineVars,
                   textChatVars>>

(* the history request is answered; camera.js:173-179, count records *)
HistoryLoaded(count) ==
    /\ historyInFlight > 0
    /\ historyInFlight' = historyInFlight - 1
    /\ IF count > 0
       THEN emotionHistoryTable' = TRUE
       ELSE UNCHANGED emotionHistoryTable
    /\ UNCHANGED <<now, startVars, statusText, loopVars, faceVars, voiceVars, quiet,
                   sessionVars, moodVars, saveInFlight, moodInFlight,
                   audioVars, speechVars, chatVars, therapyAdviceContainer,
                   sent, streamVars, orderVars,
                   otherModules>>

(* the history request is rejected (catch, camera.js:180-182) or answered *)
(* with a status that is not ok (173) *)
HistoryFailed ==
    /\ historyInFlight > 0
    /\ historyInFlight' = historyInFlight - 1
    /\ fetchFailed' = TRUE
    /\ UNCHANGED <<now, startVars, statusText, loopVars, faceVars, voiceVars, quiet,
                   sessionVars, moodVars, saveInFlight, moodInFlight,
                   emotionHistoryTable, audioVars, speechVars, chatVars,
                   therapyAdviceContainer, sent, streamVars, orderVars,
                   adviceVars, timelineVars,
                   textChatVars>>

(* variant: an answer is dropped when the answer to a newer request has   *)
(* already written the overall mood                                       *)
MoodResponseGuarded(data) ==
    /\ moodInFlight > 0
    /\ moodInFlight' = moodInFlight - 1
    /\ Answered("face", data.overall_mood)
    /\ LET fresh == data.overall_mood = Null \/ overallSource'.newer = Null
           after == IF fresh
                    THEN ApplyWrites(Dom, updateOverallMoodFromServer(Dom, data))
                    ELSE Dom
       IN  /\ faceMoodValue' = after.faceMoodValue
           /\ voiceMoodValue' = after.voiceMoodValue
           /\ overallMoodValue' = after.overallMoodValue
    /\ UNCHANGED <<now, startVars, statusText, loopVars, faceVars, voiceVars, quiet,
                   sessionVars, saveInFlight, historyInFlight, emotionHistoryTable,
                   audioVars, speechVars, chatVars, therapyAdviceContainer,
                   sent, streamVars, otherModules>>

(* the combined-mood request is answered with status 'success' and data;  *)
(* camera.js:460-497 *)
MoodResponse(data) ==
    /\ moodInFlight > 0
    /\ moodInFlight' = moodInFlight - 1
    /\ Answered("face", data.overall_mood)
    /\ LET after == ApplyWrites(Dom, updateOverallMoodFromServer(Dom, data))
       IN  /\ faceMoodValue' = after.faceMoodValue
           /\ voiceMoodValue' = after.voiceMoodValue
           /\ overallMoodValue' = after.overallMoodValue
    /\ UNCHANGED <<now, startVars, statusText, loopVars, faceVars, voiceVars, quiet,
                   sessionVars, saveInFlight, historyInFlight, emotionHistoryTable,
                   audioVars, speechVars, chatVars, therapyAdviceContainer,
                   sent, streamVars,
                   otherModules>>

(* the combined-mood request is rejected (catch, camera.js:499-501), or   *)
(* answered without ok, 'success' or data (460, 463) *)
MoodFailed ==
    /\ moodInFlight > 0
    /\ moodInFlight' = moodInFlight - 1
    /\ Answered("face", Null)
    /\ UNCHANGED <<now, startVars, statusText, loopVars, faceVars, voiceVars, quiet,
                   sessionVars, moodVars, saveInFlight, historyInFlight,
                   emotionHistoryTable, audioVars, speechVars, chatVars,
                   therapyAdviceContainer, sent, streamVars,
                   otherModules>>

(* microphone getUserMedia resolves; text-chat.js:634-676 with            *)
(* startPeriodicVoiceAnalysis (722-734) and startListening (499-515);     *)
(* speechRecognition.start() throws while a session is still running *)
MicGranted ==
    /\ micPending > 0
    /\ micPending' = micPending - 1
    /\ isRecording' = TRUE
    /\ audioAnalysisInterval' = TRUE
    /\ therapyAdviceContainer' = TRUE
    /\ recorderStream' = "live"
    /\ strayAudio' = (strayAudio \/ recorderStream = "live")
    /\ IF ~isListening /\ recognition = "off"
       THEN /\ recognition' = "on"
            /\ isListening' = TRUE
       ELSE UNCHANGED <<recognition, isListening>>
    /\ UNCHANGED <<now, startVars, statusText, loopVars, faceVars, voiceInFlight,
                   quiet, sessionVars, moodVars, fetchVars, audioVars,
                   restartTimers, chatVars, sent, stream, strayVideo, orderVars,
                   otherModules>>

(* microphone getUserMedia rejects; text-chat.js:678-682 *)
MicDenied ==
    /\ micPending > 0
    /\ micPending' = micPending - 1
    /\ UNCHANGED <<now, startVars, statusText, loopVars, faceVars, isRecording,
                   audioAnalysisInterval, voiceInFlight, quiet,
                   sessionVars, moodVars, fetchVars, audioVars, speechVars,
                   chatVars, therapyAdviceContainer, sent, streamVars, orderVars,
                   otherModules>>

(* the 2 s interval fires; text-chat.js:729-733 -> analyzeVoice (737-755), *)
(* which reads one of the given snapshots, -> calculateAudioFeatures ->    *)
(* sendAudioFeaturesForAnalysis up to its await fetch (830-843) *)
VoiceIntervalFire(snapshots) ==
    /\ audioAnalysisInterval
    /\ voiceInFlight < MaxVoiceInFlight
    /\ IF isRecording
       THEN /\ voiceInFlight' = voiceInFlight + 1
            /\ \E frequencyData \in snapshots :
                 /\ dataArray' = frequencyData
                 /\ audioFeatures' = <<calculateAudioFeatures(frequencyData)>>
            /\ \E fresh \in FreshIds :
                 sent' = sent \cup {[pipeline |-> "voice",
                                     session_id |-> getSessionId(fresh)]}
            /\ moodRequests' = Append(moodRequests, [pipeline |-> "voice", newer |-> Null])
       ELSE UNCHANGED <<voiceInFlight, dataArray, audioFeatures, sent, moodRequests>>
    /\ UNCHANGED <<now, startVars, statusText, loopVars, faceVars, micPending,
                   isRecording, audioAnalysisInterval, quiet,
                   sessionVars, moodVars, fetchVars, speechVars,
                   chatVars, therapyAdviceContainer, streamVars, overallSource,
                   otherModules>>

(* the backend answers a voice-analysis request with response.ok;         *)
(* text-chat.js:845-847 -> updateVoiceEmotionDisplay (857-909) *)
VoiceResponse(analysisResult) ==
    /\ voiceInFlight > 0
    /\ voiceInFlight' = voiceInFlight - 1
    /\ Answered("voice", analysisResult.overall_mood)
    /\ LET after == ApplyWrites(Dom, updateVoiceEmotionDisplay(Dom, analysisResult))
       IN  /\ faceMoodValue' = after.faceMoodValue
           /\ voiceMoodValue' = after.voiceMoodValue
           /\ overallMoodValue' = after.overallMoodValue
    /\ UNCHANGED <<now, startVars, statusText, loopVars, faceVars, micPending,
                   isRecording, audioAnalysisInterval, quiet,
                   sessionVars, fetchVars, audioVars, speechVars,
                   chatVars, therapyAdviceContainer, sent, streamVars,
                   otherModules>>

(* the voice-analysis request is rejected (catch, text-chat.js:851-853)   *)
(* or answered with a status that is not ok (848-850) *)
VoiceFailed ==
    /\ voiceInFlight > 0
    /\ voiceInFlight' = voiceInFlight - 1
    /\ Answered("voice", Null)
    /\ UNCHANGED <<now, startVars, statusText, loopVars, faceVars, micPending,
                   isRecording, audioAnalysisInterval, quiet,
                   sessionVars, moodVars, fetchVars, audioVars, speechVars,
                   chatVars, therapyAdviceContainer, sent, streamVars,
                   otherModules>>

(* speechRecognition.onresult, text-chat.js:464-476 -> processSpeech up   *)
(* to its await fetch (537-560); a session delivers one result            *)
SpeechResult(transcript) ==
    /\ recognition = "on"
    /\ Len(chatInFlight) + Len(chatDelayed) < MaxChatInFlight
    /\ recognition' = "done"
    /\ IF transcript # ""
       THEN \E fresh \in FreshIds :
              /\ chatInFlight' =
                   Append(chatInFlight,
                          processSpeechBody(Dom, transcript, getSessionId(fresh)))
              /\ sent' = sent \cup {[pipeline |-> "voice",
                                     session_id |-> getSessionId(fresh)]}
       ELSE UNCHANGED <<chatInFlight, sent>>
    /\ UNCHANGED <<now, startVars, statusText, loopVars, faceVars, voiceVars, quiet,
                   sessionVars, moodVars, fetchVars, audioVars, isListening,
                   restartTimers, chatDelayed, therapyAdviceText,
                   therapyAdviceContainer, streamVars, orderVars,
                   otherModules>>

(* speechRecognition.onerror, text-chat.js:478-481 -> stopListening; the  *)
(* session delivers no result any more                                    *)
SpeechError ==
    /\ recognition = "on"
    /\ recognition' = "done"
    /\ isListening' = FALSE
    /\ UNCHANGED <<now, startVars, statusText, loopVars, faceVars, voiceVars, quiet,
                   sessionVars, moodVars, fetchVars, audioVars, restartTimers,
                   chatVars, therapyAdviceContainer, sent, streamVars, orderVars,
                   otherModules>>

(* speechRecognition.onend, text-chat.js:483-493: stopListening, and a    *)
(* restart timer while recording                                          *)
SpeechEnd ==
    /\ recognition # "off"
    /\ isRecording => restartTimers < MaxRestartTimers
    /\ recognition' = "off"
    /\ isListening' = FALSE
    /\ IF isRecording
       THEN restartTimers' = restartTimers + 1
       ELSE UNCHANGED restartTimers
    /\ UNCHANGED <<now, startVars, statusText, loopVars, faceVars, voiceVars, quiet,
                   sessionVars, moodVars, fetchVars, audioVars,
                   chatVars, therapyAdviceContainer, sent, streamVars, orderVars,
                   otherModules>>

(* a restart timer runs startListening, text-chat.js:489-491 and 499-515 *)
RestartTimerFire ==
    /\ restartTimers > 0
    /\ restartTimers' = restartTimers - 1
    /\ IF ~isListening /\ recognition = "off"
       THEN /\ recognition' = "on"
            /\ isListening' = TRUE
       ELSE UNCHANGED <<recognition, isListening>>
    /\ UNCHANGED <<now, startVars, statusText, loopVars, faceVars, voiceVars, quiet,
                   sessionVars, moodVars, fetchVars, audioVars,
                   chatVars, therapyAdviceContainer, sent, streamVars, orderVars,
                   otherModules>>

(* a voice chat request is answered with response.ok and a JSON body;     *)
(* processSpeech runs on to its 800 ms delay, text-chat.js:562-582 *)
ChatResponse(chatResult) ==
    /\ \E i \in DOMAIN chatInFlight :
         chatInFlight' = RemoveAt(chatInFlight, i)
    /\ chatDelayed' = Append(chatDelayed, chatResult)
    /\ UNCHANGED <<now, startVars, statusText, loopVars, faceVars, voiceVars, quiet,
                   sessionVars, moodVars, fetchVars, audioVars, speechVars,
                   therapyAdviceText, therapyAdviceContainer, sent, streamVars, orderVars,
                   otherModules>>

(* a voice chat request is rejected or answered with a status that is not *)
(* ok; text-chat.js:562-564 and the catch block 593-595 *)
ChatFailed ==
    /\ \E i \in DOMAIN chatInFlight :
         chatInFlight' = RemoveAt(chatInFlight, i)
    /\ UNCHANGED <<now, startVars, statusText, loopVars, faceVars, voiceVars, quiet,
                   sessionVars, moodVars, fetchVars, audioVars, speechVars,
                   chatDelayed, therapyAdviceText, therapyAdviceContainer,
                   sent, streamVars, orderVars,
                   otherModules>>

(* the 800 ms delay of processSpeech ends; text-chat.js:584-592 ->        *)
(* updateTherapistResponse (600-618) *)
ChatDelayDone ==
    /\ chatDelayed # <<>>
    /\ \E i \in DOMAIN chatDelayed :
         /\ chatDelayed' = RemoveAt(chatDelayed, i)
         /\ IF chatDelayed[i].status = "success"
            THEN therapyAdviceText' = updateTherapistResponse(chatDelayed[i].response)
            ELSE UNCHANGED therapyAdviceText
    /\ UNCHANGED <<now, startVars, statusText, loopVars, faceVars, voiceVars, quiet,
                   sessionVars, moodVars, fetchVars, audioVars, speechVars,
                   chatInFlight, therapyAdviceContainer, sent, streamVars, orderVars,
                   otherModules>>

----------------------------------------------------------------------------
Next ==
    \/ Tick(MaxSessionElapsed)
    \/ StartClick(MaxPending)
    \/ CameraGranted
    \/ CameraDenied
    \/ VideoFailed
    \/ VideoReady
    \/ StopClick
    \/ RafFire
    \/ \E e \in Labels : DetectFace(e)
    \/ DetectUnusable
    \/ DetectNoFace
    \/ MicGranted
    \/ MicDenied
    \/ VoiceIntervalFire(QuietRoom)
    \/ VoiceFailed

(* Any interleaving of start and stop clicks, media grants and denials,   *)
(* detection ticks and voice ticks, over a short stretch of time, with a  *)
(* backend that answers no face request and refuses every voice request.  *)
Spec == Init /\ [][Next]_vars

(* One session that is started once and never stopped, over a stretch of  *)
(* time long enough to fill the window and to run into a reset.           *)
NextFace ==
    \/ Tick(MaxElapsed)
    \/ StartClick(MaxFacePending)
    \/ CameraGranted
    \/ VideoReady
    \/ RafFire
    \/ \E e \in Labels : DetectFace(e)
    \/ DetectUnusable
    \/ DetectNoFace

SpecFace == Init /\ [][NextFace]_vars

(* Overlapping detection loops: start and stop clicks and detection ticks *)
(* over a short stretch of time, without the voice module.                *)
NextLoops ==
    \/ Tick(MaxLoopElapsed)
    \/ StartClick(MaxPending)
    \/ CameraGranted
    \/ VideoReady
    \/ StopClick
    \/ RafFire
    \/ \E e \in Labels : DetectFace(e)
    \/ DetectUnusable
    \/ DetectNoFace

SpecLoops == Init /\ [][NextLoops]_vars

(* Start attempts that succeed or fail, at one instant of the clock.      *)
NextStart ==
    \/ StartClick(MaxPending)
    \/ CameraGranted
    \/ CameraDenied
    \/ VideoFailed
    \/ VideoReady
    \/ StopClick
    \/ RafFire
    \/ DetectUnusable
    \/ MicGranted
    \/ MicDenied

SpecStart == Init /\ [][NextStart]_vars

(* One session at one instant of the clock, with a backend that answers   *)
(* or fails the save, history and mood requests.                          *)
NextFetch ==
    \/ StartClick(MaxFacePending)
    \/ CameraGranted
    \/ VideoReady
    \/ RafFire
    \/ \E e \in Labels : DetectFace(e)
    \/ SaveOk
    \/ SaveFailed
    \/ \E count \in HistoryCounts : HistoryLoaded(count)
    \/ HistoryFailed
    \/ \E data \in MoodResults : MoodResponse(data)
    \/ MoodFailed

SpecFetch == Init /\ [][NextFetch]_vars

(* One session at one instant of the clock, with a backend that answers   *)
(* or fails the mood and voice-analysis requests, and one spoken request. *)
NextPanel ==
    \/ StartClick(MaxFacePending)
    \/ CameraGranted
    \/ VideoReady
    \/ RafFire
    \/ \E e \in Labels : DetectFace(e)
    \/ \E data \in MoodResults : MoodResponse(data)
    \/ MoodFailed
    \/ MicGranted
    \/ VoiceIntervalFire(QuietRoom)
    \/ \E analysisResult \in VoiceResults : VoiceResponse(analysisResult)
    \/ VoiceFailed
    \/ \E transcript \in Transcripts : SpeechResult(transcript)
    \/ ChatFailed

SpecPanel == Init /\ [][NextPanel]_vars

(* One session at one instant of the clock, with a recognizer that hears  *)
(* speech and a backend that accepts saves and fails every other request. *)
NextRequests ==
    \/ StartClick(MaxFacePending)
    \/ CameraGranted
    \/ VideoReady
    \/ RafFire
    \/ \E e \in Labels : DetectFace(e)
    \/ SaveOk
    \/ HistoryFailed
    \/ MoodFailed
    \/ MicGranted
    \/ VoiceIntervalFire(QuietRoom)
    \/ VoiceFailed
    \/ \E transcript \in Transcripts : SpeechResult(transcript)
    \/ SpeechError
    \/ SpeechEnd
    \/ RestartTimerFire
    \/ ChatFailed

SpecRequests == Init /\ [][NextRequests]_vars

(* Sessions started and stopped while the recognizer ends its sessions.   *)
NextSpeech ==
    \/ StartClick(MaxPending)
    \/ CameraGranted
    \/ VideoReady
    \/ StopClick
    \/ MicGranted
    \/ MicDenied
    \/ SpeechError
    \/ SpeechEnd
    \/ RestartTimerFire

SpecSpeech == Init /\ [][NextSpeech]_vars

(* One session whose analyser delivers every snapshot of Snapshots.       *)
NextAudio ==
    \/ StartClick(MaxFacePending)
    \/ CameraGranted
    \/ VideoReady
    \/ MicGranted
    \/ VoiceIntervalFire(Snapshots)
    \/ VoiceFailed

SpecAudio == Init /\ [][NextAudio]_vars

(* voice answers of a backend that has no face label for the session *)
FacelessVoiceResults == {r \in VoiceResults : r.face_emotion = Null}

(* One session with voice answers, one spoken request and the advice      *)
(* module.                                                                *)
NextAdvice ==
    \/ StartClick(MaxFacePending)
    \/ CameraGranted
    \/ VideoReady
    \/ MicGranted
    \/ VoiceIntervalFire(QuietRoom)
    \/ \E analysisResult \in FacelessVoiceResults : VoiceResponse(analysisResult)
    \/ \E transcript \in Transcripts : SpeechResult(transcript)
    \/ \E chatResult \in ChatResults : ChatResponse(chatResult)
    \/ ChatDelayDone
    \/ EmotionCheck
    \/ TypeFire
    \/ \E userText \in UserTexts : SubmitResponse(userText)
    \/ ThinkingDone

SpecAdvice == Init /\ [][NextAdvice]_vars

(* One camera session whose combined-mood answers reach the page, and the *)
(* advice module's 3 s check.                                             *)
NextMoodAdvice ==
    \/ StartClick(MaxFacePending)
    \/ CameraGranted
    \/ VideoReady
    \/ RafFire
    \/ \E e \in Labels : DetectFace(e)
    \/ \E data \in MoodResults : MoodResponse(data)
    \/ EmotionCheck
    \/ TypeFire

SpecMoodAdvice == Init /\ [][NextMoodAdvice]_vars

(* The timeline page, with up to MaxTimelineLoads overlapping loads.      *)
SpecChat == Init /\ [][NextChat]_vars

SpecTimeline == Init /\ [][NextTimeline]_vars

----------------------------------------------------------------------------
(* Properties *)

(* s's last n elements *)
LastN(s, n) == IF Len(s) <= n THEN s ELSE SubSeq(s, Len(s) - n + 1, Len(s))

(* occurrences of e in h *)
Occurrences(h, e) == Cardinality({i \in DOMAIN h : h[i] = e})

(* the labels with the highest count in h *)
Tied(h) ==
    {l \in Labels : /\ Occurrences(h, l) > 0
                    /\ \A m \in Labels : Occurrences(h, l) >= Occurrences(h, m)}

FirstIndex(h, l) == CHOOSE i \in DOMAIN h : h[i] = l /\ \A j \in 1..(i - 1) : h[j] # l

LastIndex(h, l) == CHOOSE i \in DOMAIN h : h[i] = l /\ \A j \in (i + 1)..Len(h) : h[j] # l

(* the tied label whose running count reaches the maximum first in a      *)
(* left-to-right scan of h: the one whose last occurrence comes first     *)
ReachesMaxFirst(h) ==
    CHOOSE l \in Tied(h) : \A m \in Tied(h) : LastIndex(h, l) <= LastIndex(h, m)

(* the tied label that occurs first in h *)
OccursFirst(h) ==
    CHOOSE l \in Tied(h) : \A m \in Tied(h) : FirstIndex(h, l) <= FirstIndex(h, m)

(* C1: emotionHistory holds at most 5 labels and is exactly the last       *)
(* min(n,5) labels observed since the last clear, in observation order.    *)
C1_HistoryIsLastFive ==
    /\ Len(emotionHistory) <= 5
    /\ emotionHistory = LastN(observed, 5)

(* a sixth label was observed and the evicted one differs from its successor *)
C1_Witness ==
    /\ Len(observed) = 6
    /\ observed[1] # observed[2]
    /\ Len(emotionHistory) = 5

(* C2: the label getStableEmotion returned (detectFaces stores it in       *)
(* currentEmotion) has a count in the window at least that of every other  *)
(* label; [A,A,B,A,B] returns A, and [A,A,A,B,B,B] leaves [A,A,B,B,B] and  *)
(* returns B.                                                              *)
C2_ReturnedLabelIsMostFrequent ==
    /\ emotionHistory # <<>> =>
         \A l \in Labels :
            Occurrences(emotionHistory, currentEmotion) >= Occurrences(emotionHistory, l)
    /\ observed = <<"Happy", "Happy", "Sad", "Happy", "Sad">> => currentEmotion = "Happy"
    /\ observed = <<"Happy", "Happy", "Happy", "Sad", "Sad", "Sad">> =>
         /\ emotionHistory = <<"Happy", "Happy", "Sad", "Sad", "Sad">>
         /\ currentEmotion = "Sad"

C2_Witness ==
    /\ observed = <<"Happy", "Happy", "Happy", "Sad", "Sad", "Sad">>
    /\ currentEmotion = "Sad"

(* C3 as stated: on a tie the returned label is the one that reaches the   *)
(* maximum count first in a left-to-right scan of the window.              *)
C3_ReachesMaxFirst ==
    emotionHistory # <<>> => currentEmotion = ReachesMaxFirst(emotionHistory)

(* C3 amended: on a tie the returned label is the tied label that occurs   *)
(* first in the window (oldest first occurrence), which need not be the    *)
(* most recently observed label nor the first to reach the maximum count.  *)
C3_TiedLabelOccurringFirst ==
    emotionHistory # <<>> => currentEmotion = OccursFirst(emotionHistory)

(* a tie in which the returned label is not the first to reach the maximum *)
C3_Witness ==
    /\ emotionHistory = <<"Happy", "Sad", "Sad", "Happy">>
    /\ Tied(emotionHistory) = {"Happy", "Sad"}
    /\ ReachesMaxFirst(emotionHistory) = "Sad"
    /\ currentEmotion = "Happy"

(* C4: from a face emotion, through 4 consecutive no-face ticks            *)
(* currentEmotion and emotionHistory do not change, and the 6th           *)
(* consecutive no-face tick leaves 'No face detected' and an empty history.*)
C4_FourMissesKeepSixthResets ==
    [][ /\ (missRun' \in 1..4 /\ runStartEmotion' \in Labels)
            => UNCHANGED <<currentEmotion, emotionHistory>>
        /\ (missRun = 5 /\ missRun' = 6 /\ runStartEmotion \in Labels)
            => (currentEmotion' = NoFace /\ emotionHistory' = <<>>) ]_vars

C4_Witness ==
    /\ missRun = 6
    /\ runStartEmotion \in Labels
    /\ currentEmotion = NoFace
    /\ emotionHistory = <<>>

(* C5 as stated: from a face emotion, by the end of the 5th consecutive   *)
(* no-face tick the label is 'No face detected' and the history is empty.  *)
C5_ResetByFifthMiss ==
    (missRun >= 5 /\ runStartEmotion \in Labels)
        => (currentEmotion = NoFace /\ emotionHistory = <<>>)

(* C5 amended: from a face emotion, the reset has happened once more than  *)
(* 5 consecutive ticks found no face (by the end of the 6th); after        *)
(* exactly 5 the label is still the face emotion.                          *)
C5_ResetAfterMoreThanFive ==
    /\ (missRun > 5 /\ runStartEmotion \in Labels)
          => (currentEmotion = NoFace /\ emotionHistory = <<>>)
    /\ (missRun = 5 /\ runStartEmotion \in Labels)
          => (currentEmotion = runStartEmotion /\ emotionHistory # <<>>)

C5_Witness ==
    /\ missRun > 5
    /\ runStartEmotion \in Labels
    /\ emotionDisplay = NoFace
    /\ observed = <<>>

(* C6: when the stop handler has run, emotionHistory is empty.             *)
C6_StopClearsHistory ==
    [][(isStreaming /\ ~isStreaming') => emotionHistory' = <<>>]_vars

(* C7: after the stop handler has run and until start is clicked again, no *)
(* face-detection execution begins and no analyzeVoice tick fires.         *)
C7_NoPeriodicWorkAfterStop ==
    [][quiet => (inFlight' <= inFlight /\ voiceInFlight' <= voiceInFlight)]_vars

(* C8: while the session is inactive nothing changes currentEmotion,       *)
(* emotionHistory or the emotion display, and no persistence call is made. *)
C8_LateResultsAbandoned ==
    [][~isStreaming =>
         UNCHANGED <<currentEmotion, emotionHistory, emotionDisplay, posts>>]_vars

(* C9: two executions that pass the time gate of detectFaces start at      *)
(* least 500 ms apart.                                                     *)
C9_ExecutionsHalfSecondApart ==
    prevExecTime > 0 => lastDetectionTime - prevExecTime >= 500

(* two executions passed the gate, with blocked callbacks in between *)
C9_Witness ==
    /\ prevExecTime > 0
    /\ lastDetectionTime - prevExecTime = detectionInterval
    /\ rafPending > 0

(* C10: any two POST /api/emotions calls of the face pipeline are at least *)
(* 2000 ms apart, and none carries 'No face detected'.                     *)
C10_SavesTwoSecondsApart ==
    /\ \A i, j \in DOMAIN posts : i < j => posts[j].t - posts[i].t >= 2000
    /\ \A i \in DOMAIN posts : posts[i].emotion # NoFace

(* two saves were issued, for different labels *)
C10_Witness ==
    /\ Len(posts) >= 2
    /\ posts[1].emotion # posts[2].emotion

(* C11: a face tick whose stable label differs from the previous one      *)
(* issues a POST /api/emotions for the new label and shows it in the main *)
(* emotion display.                                                       *)
C11_ChangeIsPostedAndShown ==
    [][((\E e \in Labels : DetectFace(e)) /\ currentEmotion' # currentEmotion)
         => /\ emotionDisplay' = currentEmotion'
            /\ posts' = Append(posts, [t |-> now, emotion |-> currentEmotion'])]_vars

(* C11, as the code has it: such a tick always shows the new label, and   *)
(* issues the POST exactly when more than emotionSaveInterval ms have     *)
(* passed since the last save.                                            *)
C11_ChangeShownAndPostedWhenDue ==
    [][((\E e \in Labels : DetectFace(e)) /\ currentEmotion' # currentEmotion)
         => /\ emotionDisplay' = currentEmotion'
            /\ IF now - lastEmotionSaveTime > emotionSaveInterval
               THEN posts' = Append(posts, [t |-> now, emotion |-> currentEmotion'])
               ELSE posts' = posts]_vars

(* a label is shown that came after the last save and was not saved *)
C11_Witness ==
    /\ posts # <<>>
    /\ currentEmotion \in Labels
    /\ emotionDisplay = currentEmotion
    /\ posts[Len(posts)].emotion # currentEmotion
    /\ now - lastEmotionSaveTime <= emotionSaveInterval

(* C12: the session id of the page load never changes, and every request  *)
(* the face pipeline and the voice pipeline have issued carries it.       *)
C12_OneSessionIdInEveryRequest ==
    /\ sessionId = PageSessionId
    /\ \A r \in sent : r.session_id = sessionId
    /\ \A i \in DOMAIN chatInFlight : chatInFlight[i].session_id = sessionId

(* both pipelines have issued requests, a spoken one among them *)
C12_Witness ==
    /\ \E r \in sent : r.pipeline = "face"
    /\ \E r \in sent : r.pipeline = "voice"
    /\ chatInFlight # <<>>

(* the bins lo..hi-1 of the snapshot last analysed are all zero *)
SilentBins(lo, hi) == SumBins(dataArray, lo, hi) = 0

(* C13: for an all-zero snapshot pitch, speechRate, spectralCentroid and  *)
(* spectralSpread are exactly 0, and for a snapshot whose bass and lowMid *)
(* bands are all zero pitch and speechRate are 0.                         *)
C13_ZeroDenominatorsGiveZero ==
    audioFeatures # <<>> =>
        LET f == audioFeatures[1]
            bufferLength == Len(dataArray)
        IN  /\ SilentBins(0, bufferLength) =>
                  /\ f.pitch = Rat(0, 1)
                  /\ f.speechRate = Rat(0, 1)
                  /\ f.spectralCentroid = Rat(0, 1)
                  /\ f.spectralSpread = Rat(0, 1)
            /\ SilentBins(0, lowMidRange(bufferLength)) =>
                  /\ f.pitch = Rat(0, 1)
                  /\ f.speechRate = Rat(0, 1)

(* x is a number of the closed interval [0, 1] *)
InUnitInterval(x) == x.d > 0 /\ 0 <= x.n /\ x.n <= x.d

(* C14: for any snapshot each of pitch, volume, speechRate,               *)
(* spectralCentroid and spectralSpread is a number in [0, 1].             *)
C14_FeaturesInUnitInterval ==
    audioFeatures # <<>> =>
        LET f == audioFeatures[1]
        IN  /\ InUnitInterval(f.pitch)
            /\ InUnitInterval(f.volume)
            /\ InUnitInterval(f.speechRate)
            /\ InUnitInterval(f.spectralCentroid)
            /\ InUnitInterval(f.spectralSpread)

(* C15: for the length N of every snapshot analysed, the five bands with  *)
(* boundaries floor(0.1N), floor(0.3N), floor(0.6N), floor(0.8N), N are   *)
(* contiguous, non-empty and cover every bin 0..N-1 exactly once, in the  *)
(* order bass, lowMid, mid, presence, brilliance.                         *)
C15_BandsPartitionBins ==
    dataArray # <<>> =>
        LET bufferLength == Len(dataArray)
            b == Bands(bufferLength)
            IsFloor(k, tenths) == /\ 10 * k <= tenths * bufferLength
                                  /\ tenths * bufferLength < 10 * (k + 1)
        IN  /\ <<b[1].name, b[2].name, b[3].name, b[4].name, b[5].name>>
                 = <<"bass", "lowMid", "mid", "presence", "brilliance">>
            /\ b[1].lo = 0
            /\ IsFloor(b[1].hi, 1)
            /\ IsFloor(b[2].hi, 3)
            /\ IsFloor(b[3].hi, 6)
            /\ IsFloor(b[4].hi, 8)
            /\ b[5].hi = bufferLength
            /\ \A k \in 1..4 : b[k].hi = b[k + 1].lo
            /\ \A k \in 1..5 : b[k].lo < b[k].hi
            /\ \A bin \in 0..(bufferLength - 1) :
                 Cardinality({k \in 1..5 : b[k].lo <= bin /\ bin < b[k].hi}) = 1

(* a snapshot of the page's own length, 1024 bins, was analysed *)
C15_Witness ==
    /\ Len(dataArray) = 1024
    /\ audioFeatures # <<>>

C17_FailedFetchShowsError ==
    [][(SaveFailed \/ HistoryFailed) => statusText' = "error"]_vars

(* C17, as the code has it: such a failure changes no element of the page. *)
C17_FailedFetchChangesNoElement ==
    [][(SaveFailed \/ HistoryFailed)
         => UNCHANGED <<statusText, emotionDisplay, moodVars, emotionHistoryTable,
                        therapyAdviceText, therapyAdviceContainer>>]_vars

(* a request of the face pipeline has failed during a running session *)
C17_Witness ==
    /\ fetchFailed
    /\ statusText = "active"

(* C18: when a timeline load fails (fetch rejected, status not ok, or a   *)
(* body whose status is not 'success'), it ends with the error panel      *)
(* shown and the loading indicator, the no-data message and the           *)
(* visualizations hidden.                                                 *)
C18_FailedLoadShowsOnlyError ==
    [][(TimelineFetchFailed \/ TimelineNotOk \/ TimelineParsed("failure"))
         => /\ errorMessage'
            /\ ~loadingIndicator'
            /\ ~noDataMessage'
            /\ ~emotionVisualizations']_vars

(* every character of text is on the sanitizer's allow-list *)
AllAllowed(text) == \A i \in DOMAIN text : Allowed(text[i])

(* C19: no therapist text shown to the user holds a character outside the *)
(* allow-list, be it the advice, the answer to a typed response or the    *)
(* answer to a spoken request.                                            *)
C19_ShownTherapistTextIsSanitized ==
    /\ AllAllowed(therapyAdviceText)
    /\ therapistMessage => AllAllowed(therapistParagraph)

(* texts the three elements of the mood panel may hold *)
DomStates ==
    [faceMoodValue : {NotDetected} \cup ServerMoods,
     voiceMoodValue : {NotDetected} \cup ServerMoods,
     overallMoodValue : {NotAnalyzed, ""} \cup ServerMoods]

(* C20: a pending handler of the face or voice pipeline makes the same    *)
(* writes and sends the same request body whatever the texts of the mood  *)
(* panel are.                                                             *)
C20_HandlersIgnoreDomTexts ==
    \A d2 \in DomStates :
        /\ moodInFlight > 0 =>
             \A data \in MoodResults :
                 updateOverallMoodFromServer(d2, data)
                     = updateOverallMoodFromServer(Dom, data)
        /\ voiceInFlight > 0 =>
             \A analysisResult \in VoiceResults :
                 updateVoiceEmotionDisplay(d2, analysisResult)
                     = updateVoiceEmotionDisplay(Dom, analysisResult)
        /\ recognition = "on" =>
             \A transcript \in Transcripts :
                 processSpeechBody(d2, transcript, sessionId)
                     = processSpeechBody(Dom, transcript, sessionId)

(* C20, as the code has it: each of these handlers reads one text back:   *)
(* updateOverallMoodFromServer whether voiceMoodValue is 'Not detected',  *)
(* updateVoiceEmotionDisplay whether faceMoodValue is, and processSpeech  *)
(* the text of overallMoodValue; apart from that its writes and its       *)
(* request body are the same whatever the texts are.                      *)
C20_HandlersReadOneTextEach ==
    \A d2 \in DomStates :
        /\ (/\ moodInFlight > 0
            /\ (d2.voiceMoodValue = NotDetected) = (voiceMoodValue = NotDetected)) =>
             \A data \in MoodResults :
                 updateOverallMoodFromServer(d2, data)
                     = updateOverallMoodFromServer(Dom, data)
        /\ (/\ voiceInFlight > 0
            /\ (d2.faceMoodValue = NotDetected) = (faceMoodValue = NotDetected)) =>
             \A analysisResult \in VoiceResults :
                 updateVoiceEmotionDisplay(d2, analysisResult)
                     = updateVoiceEmotionDisplay(Dom, analysisResult)
        /\ (/\ recognition = "on"
            /\ d2.overallMoodValue = overallMoodValue) =>
             \A transcript \in Transcripts :
                 processSpeechBody(d2, transcript, sessionId)
                     = processSpeechBody(Dom, transcript, sessionId)

(* the three handlers are pending and the panel has been written to *)
C20_Witness ==
    /\ moodInFlight > 0
    /\ voiceInFlight > 0
    /\ recognition = "on"
    /\ voiceMoodValue # NotDetected
    /\ overallMoodValue # NotAnalyzed

(* C21: the overall-mood display holds the overall mood of the answer     *)
(* that arrived last among those that carried one, whichever request it   *)
(* answers: no guard compares the order of the requests.                  *)
C21_DisplayHoldsLastArrival ==
    overallSource.mood # Null => overallMoodValue = overallSource.mood

(* the display holds the answer to an older request, after the different  *)
(* answer to a newer request had been written to it *)
C21_Witness ==
    /\ overallSource.newer # Null
    /\ overallSource.newer # overallSource.mood
    /\ overallMoodValue = overallSource.mood

(* C22: a face tick whose stable label equals currentEmotion leaves       *)
(* currentEmotion, the main emotion display, lastEmotionSaveTime and the  *)
(* status text as they are and issues no POST /api/emotions; it refreshes *)
(* the dashboard: faceMoodValue and one combined-mood request.            *)
C22_UnchangedLabelOnlyRefreshesDashboard ==
    [][\A e \in Labels :
          (/\ DetectFace(e)
           /\ MostFrequent(PushHistory(emotionHistory, e), e) = currentEmotion)
          => /\ UNCHANGED <<currentEmotion, emotionDisplay, lastEmotionSaveTime,
                            posts, saveInFlight, statusText>>
             /\ faceMoodValue' = currentEmotion
             /\ moodInFlight' = moodInFlight + 1]_vars

(* two ticks fed the current label more than emotionSaveInterval apart    *)
(* and one POST was issued *)
C22_Witness ==
    /\ Len(observed) = 2
    /\ observed = <<currentEmotion, currentEmotion>>
    /\ Len(posts) = 1
    /\ now - lastEmotionSaveTime > emotionSaveInterval
    /\ lastDetectionTime = now

(* C23: after more than NoFaceThreshold consecutive ticks that fed no     *)
(* label to the stability filter, currentEmotion is 'No face detected'    *)
(* and emotionHistory is empty.                                           *)
C23_UnfedTicksReset ==
    unfedRun > NoFaceThreshold =>
        /\ currentEmotion = NoFace
        /\ emotionHistory = <<>>

(* C24: the pending animation-frame callbacks and the detectFaces         *)
(* executions awaiting the recognizer are at most one in all.             *)
C24_AtMostOneLoop == rafPending + inFlight <= 1

(* C25: while the session is inactive and no start handler and no         *)
(* startVoiceAnalysis call is awaiting, no acquired camera or microphone  *)
(* stream has a live track.                                               *)
C25_StreamsReleased ==
    (~isStreaming /\ camPending = 0 /\ vidPending = 0 /\ micPending = 0)
        => /\ stream # "live"
           /\ ~strayVideo
           /\ recorderStream # "live"
           /\ ~strayAudio

(* C26: speech recognition listens only while voice analysis records.     *)
C26_ListeningImpliesRecording == isListening => isRecording

(* C27: every message the user has sent is among the children of the chat *)
(* container: as many user messages are shown as were sent.               *)
C27_UserMessagesStay ==
    Cardinality({k \in DOMAIN chatContainer : chatContainer[k].sender = "user"})
        = Len(aiCalls)

(* C28: a generateAIResponse call that has delivered its reply has no     *)
(* live thinking interval.                                                *)
C28_ThinkingIntervalCleared ==
    \A c \in DOMAIN aiCalls :
        aiCalls[c].phase = "done" => ~aiCalls[c].thinkingInterval

C30_AdviceFollowsOverallMood ==
    (/\ overallMoodValue \notin {NotAnalyzed, Unknown}
     /\ overallMoodValue # currentEmotionalState.overall)
        => ENABLED (/\ EmotionCheck
                    /\ currentEmotionalState'.overall = overallMoodValue
                    /\ adviceHeader' = getAdviceHeaderForEmotion(overallMoodValue))

====
